---- MODULE Spec2Model ----
(***************************************************************************)
(* Model of the quiz-answer statistics engine of mr-quiz:                  *)
(*   - handleAnswerCommand (services/answerCommandHandler.ts)              *)
(*   - updateUserStats, createAnswer, updateSkillStats,                    *)
(*     checkAndCreateMilestones (services/firestore.ts)                    *)
(* Every awaited Firestore call is one atomic step; a handler invocation   *)
(* is a process whose position is kept in pc.  Quotients (correctRate,     *)
(* averageDifficulty) are kept as reduced fractions.                       *)
(*   - upsertUserProfile, calculateAndSaveTeamAnalytics                    *)
(*     (services/firestore.ts); an aggregation run is a process whose      *)
(*     position is kept in tpc.                                            *)
(***************************************************************************)
EXTENDS Integers, Sequences, FiniteSets, Bags, TLC

VARIABLES users, quizzes, answers, skillStats, milestones, skillLog,
          pc, loc, result, mpc, margs, mpending, histLen,
          profiles, teamAnalytics, teamSeen, now, tpc, tloc, truns,
          rin, rout, creq, nreq

vars == <<users, quizzes, answers, skillStats, milestones, skillLog,
          pc, loc, result, mpc, margs, mpending, histLen,
          profiles, teamAnalytics, teamSeen, now, tpc, tloc, truns,
          rin, rout, creq, nreq>>

\* the profile and stat list handed to the personalization service, what it
\* last returned, the requests of POST /api/comment/process and the number of
\* profile and comment requests received
recVars == <<rin, rout, creq, nreq>>

\* the userProfiles and teamAnalytics collections, the clock, and the
\* aggregation runs
teamVars == <<profiles, teamAnalytics, teamSeen, now, tpc, tloc, truns>>

storeVars == <<users, quizzes, answers, skillStats, milestones, skillLog>>
detectorVars == <<mpc, margs, mpending, histLen>>

----------------------------------------------------------------------------
(* Bounds of the model *)

\* Answer documents created in one behaviour
MaxAnswers == 2
\* Answer documents created in one sequential behaviour (SpecSeq)
MaxSeqAnswers == 3
\* Answer documents created in the end-to-end scenario (SpecE2E)
MaxScenarioAnswers == 5
\* Answer documents created on top of the history (SpecMile)
MaxMileAnswers == 3
\* SpecTeam: aggregation runs, instants of the clock, answers recorded
\* during the runs
MaxTeamRuns == 2
MaxNow == 2
MaxTeamAnswers == 1

\* request slots: handleAnswerCommand invocations that can be in flight together
Procs == {"r1", "r2"}

\* invocation slots of checkAndCreateMilestones
Detectors == {"d1", "d2"}

Accounts == {"alice"}

\* types/index.ts CategorySchema
Categories == {"bug_fix", "performance", "refactoring", "security", "logic"}
\* categories of the quizzes generated in the model
QuizCategories == {"security", "logic"}
\* types/index.ts DifficultySchema
Difficulties == {"easy", "medium", "hard"}
\* answer indexes used by the model (the parser yields 0..3)
AnswerIndexes == {0, 1}

----------------------------------------------------------------------------
(* Quotients as reduced fractions *)

RECURSIVE GCD(_, _)
GCD(a, b) == IF b = 0 THEN a ELSE GCD(b, a % b)

Rat(a, b) == LET g == GCD(a, b) IN [num |-> a \div g, den |-> b \div g]

RatOfInt(k) == [num |-> k, den |-> 1]
RatMulInt(r, k) == Rat(r.num * k, r.den)
RatAddInt(r, k) == Rat(r.num + k * r.den, r.den)
RatDivInt(r, k) == Rat(r.num, r.den * k)
\* r >= a/b
RatGeq(r, a, b) == r.num * b >= a * r.den

----------------------------------------------------------------------------
(* Documents *)

NoUser == [exists |-> FALSE]
NoStat == [exists |-> FALSE]
NoLoc == [accountId |-> "", quizId |-> 0, answerIndex |-> 0,
          isCorrect |-> FALSE, answerId |-> 0, doc |-> NoStat]
NoResult == [status |-> "none"]
NoArgs == [accountId |-> "", answerId |-> 0, user |-> NoUser, skillStats |-> NoStat]

\* getOrCreateUser: the user document as first written
NewUser == [exists |-> TRUE, totalQuizzes |-> 0, correctCount |-> 0]

\* difficultyMap of updateSkillStats
difficultyMap == [easy |-> 1, medium |-> 2, hard |-> 3]


\* types/index.ts CategorySchema.optional(): a milestone without category
NoCategory == "none"

Quiz(quizId, category, difficulty, correctAnswerIndex) ==
    [quizId |-> quizId, category |-> category, difficulty |-> difficulty,
     correctAnswerIndex |-> correctAnswerIndex]

----------------------------------------------------------------------------
(* firestore.ts: pure parts of the storage operations *)

\* createAnswer: the Answer document built from the input and the quiz
createAnswer(answerId, accountId, selectedAnswerIndex, quiz) ==
    [answerId |-> answerId, quizId |-> quiz.quizId, accountId |-> accountId,
     selectedAnswerIndex |-> selectedAnswerIndex,
     isCorrect |-> (selectedAnswerIndex = quiz.correctAnswerIndex),
     category |-> quiz.category, difficulty |-> quiz.difficulty]

\* mutant: correctCount grows with every answer
incrementUserAlwaysCorrect(user, isCorrect) ==
    [user EXCEPT !.totalQuizzes = @ + 1,
                 !.correctCount = @ + 1]

\* updateUserStats: FieldValue.increment on the user document
incrementUser(user, isCorrect) ==
    [user EXCEPT !.totalQuizzes = @ + 1,
                 !.correctCount = IF isCorrect THEN @ + 1 ELSE @]

\* mutant: the two increments swapped (the total grows only on a correct answer)
updatedSkillStatsSwapped(existingData, difficulty, isCorrect) ==
    LET newTotalQuizzes == existingData.totalQuizzes + (IF isCorrect THEN 1 ELSE 0)
        newCorrectCount == existingData.correctCount + 1
    IN [existingData EXCEPT !.totalQuizzes = newTotalQuizzes,
                            !.correctCount = newCorrectCount,
                            !.correctRate = Rat(newCorrectCount, newTotalQuizzes),
                            !.averageDifficulty =
                                RatDivInt(RatAddInt(RatMulInt(@, existingData.totalQuizzes),
                                                    difficultyMap[difficulty]),
                                          newTotalQuizzes)]

\* mutant: the new value averaged with the old average
updatedSkillStatsHalved(existingData, difficulty, isCorrect) ==
    LET newTotalQuizzes == existingData.totalQuizzes + 1
        newCorrectCount == existingData.correctCount + (IF isCorrect THEN 1 ELSE 0)
    IN [existingData EXCEPT !.totalQuizzes = newTotalQuizzes,
                            !.correctCount = newCorrectCount,
                            !.correctRate = Rat(newCorrectCount, newTotalQuizzes),
                            !.averageDifficulty =
                                RatDivInt(RatAddInt(@, difficultyMap[difficulty]), 2)]

\* mutant: the rate taken over the total before the increment
updatedSkillStatsStaleRate(existingData, difficulty, isCorrect) ==
    LET newTotalQuizzes == existingData.totalQuizzes + 1
        newCorrectCount == existingData.correctCount + (IF isCorrect THEN 1 ELSE 0)
    IN [existingData EXCEPT !.totalQuizzes = newTotalQuizzes,
                            !.correctCount = newCorrectCount,
                            !.correctRate = Rat(newCorrectCount, existingData.totalQuizzes),
                            !.averageDifficulty =
                                RatDivInt(RatAddInt(RatMulInt(@, existingData.totalQuizzes),
                                                    difficultyMap[difficulty]),
                                          newTotalQuizzes)]

\* updateSkillStats, branch doc.exists: the fields passed to docRef.update
updatedSkillStats(existingData, difficulty, isCorrect) ==
    LET difficultyValue == difficultyMap[difficulty]
        newTotalQuizzes == existingData.totalQuizzes + 1
        newCorrectCount == existingData.correctCount + (IF isCorrect THEN 1 ELSE 0)
        newCorrectRate == Rat(newCorrectCount, newTotalQuizzes)
        newAverageDifficulty ==
            RatDivInt(RatAddInt(RatMulInt(existingData.averageDifficulty,
                                          existingData.totalQuizzes),
                                difficultyValue),
                      newTotalQuizzes)
    IN [existingData EXCEPT !.totalQuizzes = newTotalQuizzes,
                            !.correctCount = newCorrectCount,
                            !.correctRate = newCorrectRate,
                            !.averageDifficulty = newAverageDifficulty]

\* updateSkillStats, branch else: the document passed to docRef.set
createdSkillStats(difficulty, isCorrect) ==
    [exists |-> TRUE,
     totalQuizzes |-> 1,
     correctCount |-> IF isCorrect THEN 1 ELSE 0,
     correctRate |-> RatOfInt(IF isCorrect THEN 1 ELSE 0),
     averageDifficulty |-> RatOfInt(difficultyMap[difficulty])]

\* updateSkillStats: the document written, from the document read before
writtenSkillStats(doc, difficulty, isCorrect) ==
    IF doc.exists THEN updatedSkillStats(doc, difficulty, isCorrect)
    ELSE createdSkillStats(difficulty, isCorrect)

\* the UpdateSkillStatsInput of one completed updateSkillStats call
SkillInput(accountId, category, difficulty, isCorrect) ==
    [accountId |-> accountId, category |-> category,
     difficulty |-> difficulty, isCorrect |-> isCorrect]

\* getAnswersByUser: ids of the user's answers, newest first
getAnswersByUser(accountId) ==
    {i \in 1..Len(answers) : answers[i].accountId = accountId}

\* mutant: only the latest answer of the user is looked at
findUserAnswerLatestOnly(accountId, quizId) ==
    LET hits == {i \in getAnswersByUser(accountId) :
                    /\ answers[i].quizId = quizId
                    /\ \A j \in getAnswersByUser(accountId) : j <= i}
    IN IF hits = {} THEN 0 ELSE CHOOSE i \in hits : \A j \in hits : j <= i

\* handleAnswerCommand: existingAnswers.find(a => a.quizId === quiz.quizId)
\* on the list ordered by answeredAt desc; 0 when there is none
findUserAnswer(accountId, quizId) ==
    LET hits == {i \in getAnswersByUser(accountId) : answers[i].quizId = quizId}
    IN IF hits = {} THEN 0 ELSE CHOOSE i \in hits : \A j \in hits : j <= i


----------------------------------------------------------------------------
(* firestore.ts checkAndCreateMilestones: the rules *)

\* line 589
totalMilestones == {10, 50, 100, 500, 1000}

Milestone(accountId, type, category, metadata) ==
    [accountId |-> accountId, type |-> type, category |-> category,
     metadata |-> metadata]

\* mutant: the query filters on a type no milestone has
existingMilestonesEmptyWrongType(accountId, category) ==
    ~ \E i \in 1..Len(milestones) :
          /\ milestones[i].accountId = accountId
          /\ milestones[i].type = "category_mastery"
          /\ milestones[i].category = category

\* lines 568-574: the query on accountId, type and category comes back empty
existingMilestonesEmpty(accountId, category) ==
    ~ \E i \in 1..Len(milestones) :
          /\ milestones[i].accountId = accountId
          /\ milestones[i].type = "category_master"
          /\ milestones[i].category = category

\* mutant: the cumulative count is not looked at
firstCorrectRuleEveryCorrect(accountId, answer, user) ==
    IF answer.isCorrect
    THEN << Milestone(accountId, "first_correct", answer.category,
                      [quizId |-> answer.quizId]) >>
    ELSE <<>>

\* mutant: the outcome of the answer is not looked at
firstCorrectRuleAnyAnswer(accountId, answer, user) ==
    IF user.correctCount = 1
    THEN << Milestone(accountId, "first_correct", answer.category,
                      [quizId |-> answer.quizId]) >>
    ELSE <<>>

\* lines 550-559
firstCorrectRule(accountId, answer, user) ==
    IF answer.isCorrect /\ user.correctCount = 1
    THEN << Milestone(accountId, "first_correct", answer.category,
                      [quizId |-> answer.quizId]) >>
    ELSE <<>>

\* mutant: the existence query is left out
categoryMasterRuleUnchecked(accountId, answer, stat) ==
    IF /\ stat.exists
       /\ RatGeq(stat.correctRate, 4, 5)
       /\ stat.totalQuizzes >= 5
    THEN << Milestone(accountId, "category_master", answer.category,
                      [correctRate |-> stat.correctRate,
                       totalQuizzes |-> stat.totalQuizzes]) >>
    ELSE <<>>

\* mutant: more than five attempts asked for
categoryMasterRuleOffByOne(accountId, answer, stat) ==
    IF /\ stat.exists
       /\ RatGeq(stat.correctRate, 4, 5)
       /\ stat.totalQuizzes > 5
       /\ existingMilestonesEmpty(accountId, answer.category)
    THEN << Milestone(accountId, "category_master", answer.category,
                      [correctRate |-> stat.correctRate,
                       totalQuizzes |-> stat.totalQuizzes]) >>
    ELSE <<>>

\* lines 561-586
categoryMasterRule(accountId, answer, stat) ==
    IF /\ stat.exists
       /\ RatGeq(stat.correctRate, 4, 5)
       /\ stat.totalQuizzes >= 5
       /\ existingMilestonesEmpty(accountId, answer.category)
    THEN << Milestone(accountId, "category_master", answer.category,
                      [correctRate |-> stat.correctRate,
                       totalQuizzes |-> stat.totalQuizzes]) >>
    ELSE <<>>

\* mutant: a threshold reached or passed
totalMilestoneRuleAtLeast(accountId, user) ==
    IF \E t \in totalMilestones : user.totalQuizzes >= t
    THEN << Milestone(accountId, "total_milestone", NoCategory,
                      [totalQuizzes |-> user.totalQuizzes,
                       correctRate |-> Rat(user.correctCount, user.totalQuizzes)]) >>
    ELSE <<>>

\* lines 588-600
totalMilestoneRule(accountId, user) ==
    IF user.totalQuizzes \in totalMilestones
    THEN << Milestone(accountId, "total_milestone", NoCategory,
                      [totalQuizzes |-> user.totalQuizzes,
                       correctRate |-> Rat(user.correctCount, user.totalQuizzes)]) >>
    ELSE <<>>

\* lines 547-600: the list the creation loop goes through
detectMilestones(accountId, answer, user, stat) ==
    firstCorrectRule(accountId, answer, user)
        \o categoryMasterRule(accountId, answer, stat)
        \o totalMilestoneRule(accountId, user)

----------------------------------------------------------------------------
(* firestore.ts: userProfiles and teamAnalytics, pure parts *)

\* users whose answers the aggregation scans
TeamAccounts == {"u1", "u2", "u3", "u4"}
AllAccounts == Accounts \cup TeamAccounts
\* ExperienceLevelSchema
Levels == {"junior", "mid", "senior"}
\* an optional argument or field that is not given
NoLevel == "none"
\* an optional value: None when it is undefined, Some(v) when it is v
None == <<>>
Some(v) == <<v>>
NoProfile == [exists |-> FALSE]
NoAnalytics == [exists |-> FALSE]
\* the aggregation runs that can be in flight
Jobs == {"j1", "j2"}
\* the months "YYYY-MM" a run is asked for, numbered
Periods == {1, 2}

\* Time is counted in instants, MonthLen to a month: the first instant of a
\* month is its startDate, the last but one is 23:59:59.000 of its last day
\* (endDate), and the last is the rest of that second.
MonthLen == 3
startDate(period) == (period - 1) * MonthLen
endDate(period) == period * MonthLen - 2

RatAdd(r, q) == Rat(r.num * q.den + q.num * r.den, r.den * q.den)
RatLeq(r, q) == r.num * q.den <= q.num * r.den

\* createAnswer, with the answeredAt it stamps (line 217)
createAnswerAt(answerId, accountId, selectedAnswerIndex, quiz, at) ==
    createAnswer(answerId, accountId, selectedAnswerIndex, quiz)
        @@ [answeredAt |-> at]

\* lines 650-660: the answers of the period, of one category when it is given
fetchAnswers(period, category) ==
    SelectSeq(answers,
              LAMBDA x : /\ x.answeredAt >= startDate(period)
                         /\ x.answeredAt <= endDate(period)
                         /\ (category # NoCategory => x.category = category))

\* lines 662-671: correct and total per user with an answer among those fetched
userStatsOf(fetched) ==
    [a \in {fetched[i].accountId : i \in 1..Len(fetched)} |->
        [correct |-> Cardinality({i \in 1..Len(fetched) :
                                     fetched[i].accountId = a /\ fetched[i].isCorrect}),
         total |-> Cardinality({i \in 1..Len(fetched) : fetched[i].accountId = a})]]

\* lines 676-678: the ids of the profiles with the level
profileAccountIdsOf(experienceLevel) ==
    {a \in AllAccounts : profiles[a].exists
                         /\ profiles[a].experienceLevel = experienceLevel}

\* mutant: users without a profile are kept
filteredUsersOfDefaultBucket(userStats, experienceLevel, profileAccountIds) ==
    IF experienceLevel # NoLevel
    THEN {a \in DOMAIN userStats : a \in profileAccountIds \/ ~profiles[a].exists}
    ELSE DOMAIN userStats

\* lines 673-684
filteredUsersOf(userStats, experienceLevel, profileAccountIds) ==
    IF experienceLevel # NoLevel
    THEN {a \in DOMAIN userStats : a \in profileAccountIds}
    ELSE DOMAIN userStats

RECURSIVE sortedRates(_, _)
\* lines 687-693: the users' rates, sorted ascending
sortedRates(userStats, users_) ==
    IF users_ = {} THEN <<>>
    ELSE LET rate(a) == Rat(userStats[a].correct, userStats[a].total)
             least == CHOOSE a \in users_ :
                          \A b \in users_ : RatLeq(rate(a), rate(b))
         IN <<rate(least)>> \o sortedRates(userStats, users_ \ {least})

\* mutant: the median of two neighbours instead of the value at the rank
getPercentileInterpolated(arr, percentile) ==
    IF Len(arr) = 0 THEN RatOfInt(0)
    ELSE LET index == (Len(arr) * percentile.num) \div percentile.den
             hi == (IF index < Len(arr) - 1 THEN index ELSE Len(arr) - 1) + 1
             lo == IF hi > 1 THEN hi - 1 ELSE hi
         IN RatDivInt(RatAdd(arr[lo], arr[hi]), 2)

\* lines 696-700; percentile is a fraction [num, den]
getPercentile(arr, percentile) ==
    IF Len(arr) = 0 THEN RatOfInt(0)
    ELSE LET index == (Len(arr) * percentile.num) \div percentile.den
         IN arr[(IF index < Len(arr) - 1 THEN index ELSE Len(arr) - 1) + 1]

RECURSIVE sumRates(_)
sumRates(arr) ==
    IF arr = <<>> THEN RatOfInt(0) ELSE RatAdd(Head(arr), sumRates(Tail(arr)))

\* lines 702-705
avgCorrectRateOf(correctRates) ==
    IF Len(correctRates) > 0
    THEN RatDivInt(sumRates(correctRates), Len(correctRates))
    ELSE RatOfInt(0)

\* lines 707-714: the period, then the level and the category when given
analyticsIdOf(period, experienceLevel, category) ==
    <<period>> \o (IF experienceLevel # NoLevel THEN <<experienceLevel>> ELSE <<>>)
               \o (IF category # NoCategory THEN <<category>> ELSE <<>>)

AnalyticsIds ==
    {analyticsIdOf(p, l, c) : p \in Periods, l \in Levels \cup {NoLevel},
                              c \in Categories \cup {NoCategory}}

\* mutant: totalQuizzes counts the answers of the cohort only
teamAnalyticsOfCohortTotal(period, experienceLevel, category, fetched, filteredUsers, at) ==
    LET correctRates == sortedRates(userStatsOf(fetched), filteredUsers)
    IN [exists |-> TRUE,
        analyticsId |-> analyticsIdOf(period, experienceLevel, category),
        period |-> period,
        experienceLevel |-> experienceLevel,
        category |-> category,
        avgCorrectRate |-> avgCorrectRateOf(correctRates),
        totalQuizzes |-> Cardinality({i \in 1..Len(fetched) :
                                         fetched[i].accountId \in filteredUsers}),
        activeUsers |-> Cardinality(filteredUsers),
        percentile25 |-> getPercentile(correctRates, [num |-> 1, den |-> 4]),
        percentile50 |-> getPercentile(correctRates, [num |-> 1, den |-> 2]),
        percentile75 |-> getPercentile(correctRates, [num |-> 3, den |-> 4]),
        percentile90 |-> getPercentile(correctRates, [num |-> 9, den |-> 10]),
        calculatedAt |-> at]

\* lines 717-732: the record a run computes
teamAnalyticsOf(period, experienceLevel, category, fetched, filteredUsers, at) ==
    LET correctRates == sortedRates(userStatsOf(fetched), filteredUsers)
    IN [exists |-> TRUE,
        analyticsId |-> analyticsIdOf(period, experienceLevel, category),
        period |-> period,
        experienceLevel |-> experienceLevel,
        category |-> category,
        avgCorrectRate |-> avgCorrectRateOf(correctRates),
        totalQuizzes |-> Len(fetched),
        activeUsers |-> Cardinality(filteredUsers),
        percentile25 |-> getPercentile(correctRates, [num |-> 1, den |-> 4]),
        percentile50 |-> getPercentile(correctRates, [num |-> 1, den |-> 2]),
        percentile75 |-> getPercentile(correctRates, [num |-> 3, den |-> 4]),
        percentile90 |-> getPercentile(correctRates, [num |-> 9, den |-> 10]),
        calculatedAt |-> at]

\* CreateUserProfileInput; every field but accountId is an optional value
ProfileInput(accountId, careerGoal, experienceLevel, yearsOfExperience, focusAreas, selfAssessment) ==
    [accountId |-> accountId, careerGoal |-> careerGoal,
     experienceLevel |-> experienceLevel, yearsOfExperience |-> yearsOfExperience,
     focusAreas |-> focusAreas, selfAssessment |-> selfAssessment]

\* upsertUserProfile: the document after the call (lines 319-353).  In the
\* document careerGoal, yearsOfExperience and selfAssessment stay optional
\* values; a missing experienceLevel is NoLevel.
upsertedProfile(doc, input, at) ==
    IF doc.exists
    THEN [doc EXCEPT !.careerGoal = IF input.careerGoal # None
                                    THEN input.careerGoal ELSE @,
                     !.experienceLevel = IF input.experienceLevel # None
                                         THEN input.experienceLevel[1] ELSE @,
                     !.yearsOfExperience = IF input.yearsOfExperience # None
                                           THEN input.yearsOfExperience ELSE @,
                     !.focusAreas = IF input.focusAreas # None
                                    THEN input.focusAreas[1] ELSE @,
                     !.selfAssessment = IF input.selfAssessment # None
                                        THEN input.selfAssessment ELSE @,
                     !.updatedAt = at]
    ELSE [exists |-> TRUE,
          accountId |-> input.accountId,
          careerGoal |-> input.careerGoal,
          experienceLevel |-> IF input.experienceLevel # None
                              THEN input.experienceLevel[1] ELSE NoLevel,
          yearsOfExperience |-> input.yearsOfExperience,
          focusAreas |-> IF input.focusAreas # None THEN input.focusAreas[1]
                         ELSE <<>>,
          selfAssessment |-> input.selfAssessment,
          createdAt |-> at,
          updatedAt |-> at]

\* per key, the answers and profiles the last run for it worked on, and how
\* many runs for it found them as the run before had
NoSeen == [inputs |-> <<>>, reruns |-> 0]

\* nothing handed to the personalization service, nothing returned
NoInput == [profile |-> NoProfile, skillStats |-> <<>>]
NoOutput == [op |-> "none"]

NoTeamLoc == [period |-> 0, experienceLevel |-> NoLevel, category |-> NoCategory,
              answers |-> <<>>, profileAccountIds |-> {}]

\* the requests of POST /api/comment/process that can be in flight
Comments == {"c1", "c2"}
NoRequest == [pc |-> "idle", accountId |-> "", body |-> <<>>, command |-> <<>>,
              existing |-> [exists |-> FALSE], quiz |-> 0, failed |-> FALSE,
              response |-> "none"]

InitTeamVars(ps) ==
    /\ profiles = ps
    /\ creq = [c \in Comments |-> NoRequest]
    /\ nreq = 0
    /\ teamAnalytics = [k \in AnalyticsIds |-> NoAnalytics]
    /\ teamSeen = [k \in AnalyticsIds |-> NoSeen]
    /\ now = 0
    /\ tpc = [j \in Jobs |-> "idle"]
    /\ tloc = [j \in Jobs |-> NoTeamLoc]
    /\ truns = 0
    /\ rin = NoInput
    /\ rout = NoOutput

----------------------------------------------------------------------------
(* personalization service: selectOptimalCategory, selectOptimalDifficulty,
   generateLearningRecommendations *)

\* lines 88-94
allCategories == <<"bug_fix", "performance", "refactoring", "security", "logic">>

RatMul(r, q) == Rat(r.num * q.num, r.den * q.den)
RatLess(r, q) == r.num * q.den < q.num * r.den
\* 1 - r
RatComplement(r) == Rat(r.den - r.num, r.den)

\* a SkillStats row as the service reads it; lastAnsweredAt is optional
StatRow(category, totalQuizzes, correctCount, averageDifficulty, lastAnsweredAt) ==
    [exists |-> TRUE, category |-> category, totalQuizzes |-> totalQuizzes,
     correctCount |-> correctCount,
     correctRate |-> IF totalQuizzes = 0 THEN RatOfInt(0)
                     ELSE Rat(correctCount, totalQuizzes),
     averageDifficulty |-> averageDifficulty,
     lastAnsweredAt |-> lastAnsweredAt]

\* skillStats.find((s) => s.category === category), NoStat when undefined
findStats(stats, category) ==
    IF \E i \in 1..Len(stats) : stats[i].category = category
    THEN stats[CHOOSE i \in 1..Len(stats) :
                        /\ stats[i].category = category
                        /\ \A j \in 1..(i - 1) : stats[j].category # category]
    ELSE NoStat

\* instants of the clock to a day, when days are counted
DayLen == 2

\* lines 248-256: whole days from the timestamp to now
getDaysSince(timestamp) == (now - timestamp) \div DayLen

includes(list, x) == \E i \in 1..Len(list) : list[i] = x

\* mutant: the growth signal is given at average difficulty 2 as well
calculateCategoryPriorityGrowthAtTwo(profile, stats, category) ==
    LET categoryStats == findStats(stats, category)
        weakness == IF categoryStats.exists /\ categoryStats.totalQuizzes >= 3
                    THEN RatMul(RatComplement(categoryStats.correctRate), Rat(2, 5))
                    ELSE Rat(1, 5)
        goal == IF includes(profile.focusAreas, category) THEN Rat(3, 10)
                ELSE RatOfInt(0)
        review == IF categoryStats.exists /\ categoryStats.lastAnsweredAt # None
                  THEN LET daysSinceLastQuiz ==
                               getDaysSince(categoryStats.lastAnsweredAt[1])
                       IN IF daysSinceLastQuiz >= 7 THEN Rat(1, 5)
                          ELSE IF daysSinceLastQuiz >= 3 THEN Rat(1, 10)
                          ELSE RatOfInt(0)
                  ELSE Rat(3, 20)
        growth == IF categoryStats.exists
                     /\ ~RatLess(RatOfInt(2), categoryStats.averageDifficulty)
                  THEN Rat(1, 10) ELSE RatOfInt(0)
    IN RatAdd(RatAdd(RatAdd(weakness, goal), review), growth)

\* lines 127-172
calculateCategoryPriority(profile, stats, category) ==
    LET categoryStats == findStats(stats, category)
        weakness == IF categoryStats.exists /\ categoryStats.totalQuizzes >= 3
                    THEN RatMul(RatComplement(categoryStats.correctRate), Rat(2, 5))
                    ELSE Rat(1, 5)
        goal == IF includes(profile.focusAreas, category) THEN Rat(3, 10)
                ELSE RatOfInt(0)
        review == IF categoryStats.exists /\ categoryStats.lastAnsweredAt # None
                  THEN LET daysSinceLastQuiz ==
                               getDaysSince(categoryStats.lastAnsweredAt[1])
                       IN IF daysSinceLastQuiz >= 7 THEN Rat(1, 5)
                          ELSE IF daysSinceLastQuiz >= 3 THEN Rat(1, 10)
                          ELSE RatOfInt(0)
                  ELSE Rat(3, 20)
        growth == IF categoryStats.exists
                     /\ RatLess(categoryStats.averageDifficulty, RatOfInt(2))
                  THEN Rat(1, 10) ELSE RatOfInt(0)
    IN RatAdd(RatAdd(RatAdd(weakness, goal), review), growth)

\* lines 102-105
categoryScoresOf(profile, stats) ==
    [i \in 1..Len(allCategories) |->
        [category |-> allCategories[i],
         score |-> calculateCategoryPriority(profile, stats, allCategories[i])]]

removeAt(list, i) == SubSeq(list, 1, i - 1) \o SubSeq(list, i + 1, Len(list))

\* line 108: sort((a, b) => b.score - a.score), equal scores keep their
\* order: an entry is placed behind those with a higher score and those
\* with its score that stood before it
sortByScoreDescending(list) ==
    LET ahead(i) == {j \in 1..Len(list) :
                        \/ RatLess(list[i].score, list[j].score)
                        \/ (j < i /\ list[j].score = list[i].score)}
    IN [k \in 1..Len(list) |->
           list[CHOOSE i \in 1..Len(list) : Cardinality(ahead(i)) = k - 1]]

\* mutant: the first place only
topCategoriesFirstOnly(categoryScores) == SubSeq(categoryScores, 1, 1)

\* line 111: categoryScores.slice(0, 3)
topCategories(categoryScores) == SubSeq(categoryScores, 1, 3)

\* lines 97-99 and 111-114: the categories Math.random can pick
selectableCategories(profile, stats) ==
    IF ~profile.exists \/ Len(stats) = 0
    THEN {allCategories[i] : i \in 1..Len(allCategories)}
    ELSE LET top == topCategories(
                        sortByScoreDescending(categoryScoresOf(profile, stats)))
         IN {top[i].category : i \in 1..Len(top)}

\* lines 220-229
increaseDifficulty(current) ==
    CASE current = "easy" -> "medium"
      [] current = "medium" -> "hard"
      [] current = "hard" -> "hard"

\* lines 234-243
decreaseDifficulty(current) ==
    CASE current = "easy" -> "easy"
      [] current = "medium" -> "easy"
      [] current = "hard" -> "medium"

\* mutant: the adjustment starts above five attempts
selectOptimalDifficultyAboveFive(profile, categoryStats) ==
    IF ~profile.exists THEN "easy"
    ELSE LET baseDifficulty ==
                 CASE profile.experienceLevel = "junior" -> "easy"
                   [] profile.experienceLevel = "mid" -> "medium"
                   [] profile.experienceLevel = "senior" -> "hard"
                   [] OTHER -> "medium"
         IN IF categoryStats.exists /\ categoryStats.totalQuizzes > 5
            THEN IF RatGeq(categoryStats.correctRate, 4, 5)
                 THEN increaseDifficulty(baseDifficulty)
                 ELSE IF RatLeq(categoryStats.correctRate, Rat(2, 5))
                      THEN decreaseDifficulty(baseDifficulty)
                      ELSE baseDifficulty
            ELSE baseDifficulty

\* lines 177-215; a null profile or null categoryStats is NoProfile, NoStat
selectOptimalDifficulty(profile, categoryStats) ==
    IF ~profile.exists THEN "easy"
    ELSE LET baseDifficulty ==
                 CASE profile.experienceLevel = "junior" -> "easy"
                   [] profile.experienceLevel = "mid" -> "medium"
                   [] profile.experienceLevel = "senior" -> "hard"
                   [] OTHER -> "medium"
         IN IF categoryStats.exists /\ categoryStats.totalQuizzes >= 5
            THEN IF RatGeq(categoryStats.correctRate, 4, 5)
                 THEN increaseDifficulty(baseDifficulty)
                 ELSE IF RatLeq(categoryStats.correctRate, Rat(2, 5))
                      THEN decreaseDifficulty(baseDifficulty)
                      ELSE baseDifficulty
            ELSE baseDifficulty

RECURSIVE sortByRateAscending(_)
\* line 293: sort((a, b) => a.correctRate - b.correctRate), equal rates keep
\* their order
sortByRateAscending(list) ==
    IF list = <<>> THEN <<>>
    ELSE LET i == CHOOSE i \in 1..Len(list) :
                      /\ \A j \in 1..Len(list) :
                             ~RatLess(list[j].correctRate, list[i].correctRate)
                      /\ \A j \in 1..(i - 1) :
                             RatLess(list[i].correctRate, list[j].correctRate)
         IN <<list[i]>> \o sortByRateAscending(removeAt(list, i))

\* mutant: a rate of exactly 0.6 counts as weak
weakStatsOfUpToSixty(stats) ==
    sortByRateAscending(
        SelectSeq(stats, LAMBDA x : /\ x.totalQuizzes >= 3
                                    /\ RatLeq(x.correctRate, Rat(3, 5))))

\* lines 291-293
weakStatsOf(stats) ==
    sortByRateAscending(
        SelectSeq(stats, LAMBDA x : /\ x.totalQuizzes >= 3
                                    /\ RatLess(x.correctRate, Rat(3, 5))))

\* lines 295-305
weakAreasOf(weakStats) ==
    [i \in 1..Len(weakStats) |->
        [category |-> weakStats[i].category,
         correctRate |-> weakStats[i].correctRate,
         priority |-> IF RatLess(weakStats[i].correctRate, Rat(3, 10)) THEN "high"
                      ELSE IF RatLess(weakStats[i].correctRate, Rat(1, 2))
                           THEN "medium" ELSE "low"]]

\* Math.round(rate * 100)
roundedPercent(rate) == (200 * rate.num + rate.den) \div (2 * rate.den)

RECURSIVE sumTotalQuizzes(_)
sumTotalQuizzes(stats) ==
    IF stats = <<>> THEN 0 ELSE Head(stats).totalQuizzes + sumTotalQuizzes(Tail(stats))

\* lines 261-342; a message of nextSteps is kept as its kind and what it names
generateLearningRecommendations(profile, stats) ==
    IF Len(stats) = 0
    THEN [weakAreas |-> <<>>, suggestedFocusAreas |-> <<>>,
          nextSteps |-> << <<"start_answering">> >>]
    ELSE LET weakStats == weakStatsOf(stats)
             weakAreas == weakAreasOf(weakStats)
             masteredAreas ==
                 SelectSeq(stats, LAMBDA x : /\ x.totalQuizzes >= 5
                                             /\ RatGeq(x.correctRate, 4, 5))
         IN [weakAreas |-> weakAreas,
             suggestedFocusAreas |->
                 IF profile.exists /\ Len(profile.focusAreas) > 0
                 THEN profile.focusAreas
                 ELSE IF Len(weakAreas) > 0 THEN <<weakAreas[1].category>>
                      ELSE <<>>,
             nextSteps |->
                 (IF Len(weakStats) > 0
                  THEN << <<"deepen", weakStats[1].category,
                            roundedPercent(weakStats[1].correctRate)>> >>
                  ELSE <<>>)
                 \o (IF Len(masteredAreas) > 0
                     THEN << <<"mastered", masteredAreas[1].category>> >>
                     ELSE <<>>)
                 \o (IF profile.exists /\ profile.experienceLevel = "junior"
                        /\ sumTotalQuizzes(stats) >= 50
                     THEN << <<"next_level">> >>
                     ELSE <<>>)]

----------------------------------------------------------------------------
(* utils/commandParser.ts and the handleProfileCommand input.  A comment body
   is its command word, the key=value matches of paramRegex in their order
   (of a /profile command) and the characters after the command word (of an
   /answer command).  The value of experience is its text, the value of
   years its characters, the value of focus its pieces between the commas,
   and the value of goal is kept as its length. *)

DigitValue ==
    ("0" :> 0) @@ ("1" :> 1) @@ ("2" :> 2) @@ ("3" :> 3) @@ ("4" :> 4)
    @@ ("5" :> 5) @@ ("6" :> 6) @@ ("7" :> 7) @@ ("8" :> 8) @@ ("9" :> 9)

RECURSIVE leadingDigits(_)
leadingDigits(chars) ==
    IF chars = <<>> THEN <<>>
    ELSE IF Head(chars) \in DOMAIN DigitValue
         THEN <<Head(chars)>> \o leadingDigits(Tail(chars))
         ELSE <<>>

RECURSIVE decimalValue(_)
decimalValue(digits) ==
    IF digits = <<>> THEN 0
    ELSE 10 * decimalValue(SubSeq(digits, 1, Len(digits) - 1))
         + DigitValue[digits[Len(digits)]]

\* Number.parseInt(text, 10): an optional sign and the digits that follow it,
\* whatever comes after them; None for NaN
parseInt(chars) ==
    LET signed == chars # <<>> /\ Head(chars) \in {"-", "+"}
        digits == leadingDigits(IF signed THEN Tail(chars) ELSE chars)
    IN IF digits = <<>> THEN None
       ELSE IF Head(chars) = "-" THEN Some(0 - decimalValue(digits))
            ELSE Some(decimalValue(digits))

\* toLowerCase on the texts of the model
LowerCaseOf ==
    ("/Profile" :> "/profile") @@ ("/ANSWER" :> "/answer") @@ ("MID" :> "mid")
    @@ ("Senior" :> "senior") @@ ("Years" :> "years") @@ ("FOCUS" :> "focus")

toLowerCase(text) == IF text \in DOMAIN LowerCaseOf THEN LowerCaseOf[text] ELSE text

CommentBody(command, params, text) ==
    [command |-> command, params |-> params, text |-> text]

Param(key, value) == [key |-> key, value |-> value]

\* lines 28-40
detectCommandType(body) ==
    IF toLowerCase(body.command) = "/profile" THEN "profile"
    ELSE IF toLowerCase(body.command) = "/answer" THEN "answer"
    ELSE "null"

\* line 63: const command: ProfileCommand = {}
EmptyCommand == [experience |-> None, years |-> None, focus |-> None, goal |-> None]

\* careerGoal: z.string().max(500), and line 129
MaxGoalLength == 500
\* focusAreas: z.array(CategorySchema).max(5), and line 107
MaxFocusAreas == 5

RECURSIVE parseParams(_, _)
\* lines 70-145: the loop over the matches; None for null
parseParams(params, command) ==
    IF params = <<>> THEN Some(command)
    ELSE LET key == toLowerCase(Head(params).key)
             value == Head(params).value
         IN CASE key \in {"experience", "exp"} ->
                     IF toLowerCase(value) \in {"junior", "mid", "senior"}
                     THEN parseParams(Tail(params),
                                      [command EXCEPT !.experience = Some(toLowerCase(value))])
                     ELSE None
              [] key \in {"years", "year"} ->
                     LET years == parseInt(value)
                     IN IF years = None THEN None
                        ELSE IF years[1] < 0 THEN None
                        ELSE parseParams(Tail(params), [command EXCEPT !.years = years])
              [] key = "focus" ->
                     LET categories == SelectSeq(value, LAMBDA c : c # "")
                     IN IF Len(categories) > MaxFocusAreas THEN None
                        ELSE IF \E i \in 1..Len(categories) : categories[i] \notin Categories
                        THEN None
                        ELSE parseParams(Tail(params),
                                         [command EXCEPT !.focus = Some(categories)])
              [] key = "goal" ->
                     IF value > MaxGoalLength THEN None
                     ELSE parseParams(Tail(params), [command EXCEPT !.goal = Some(value)])
              [] OTHER -> parseParams(Tail(params), command)

\* parseProfileCommand (lines 46-150)
parseProfileCommand(body) ==
    IF toLowerCase(body.command) # "/profile" THEN None
    ELSE parseParams(body.params, EmptyCommand)

\* parseAnswerCommand (lines 156-186): the index from 0, None for null
parseAnswerCommand(body) ==
    IF toLowerCase(body.command) # "/answer" THEN None
    ELSE LET answerIndex == parseInt(body.text)
         IN IF answerIndex = None THEN None
            ELSE IF answerIndex[1] < 1 \/ answerIndex[1] > 4 THEN None
            ELSE Some(answerIndex[1] - 1)

\* a ?? b on optional values
orElse(a, b) == IF a # None THEN a ELSE b

\* handleProfileCommand, lines 786-794: the input built from the command and
\* the profile read before
profileInputOf(accountId, command, existing) ==
    ProfileInput(accountId,
                 orElse(command.goal,
                        IF existing.exists THEN existing.careerGoal ELSE None),
                 orElse(command.experience,
                        IF existing.exists /\ existing.experienceLevel # NoLevel
                        THEN Some(existing.experienceLevel) ELSE Some("mid")),
                 orElse(command.years,
                        orElse(IF existing.exists THEN existing.yearsOfExperience
                               ELSE None,
                               Some(0))),
                 orElse(command.focus,
                        IF existing.exists THEN Some(existing.focusAreas)
                        ELSE Some(<<>>)),
                 None)

\* CreateUserProfileInputSchema.safeParse of the PUT /:accountId/profile body
validProfileInput(input) ==
    /\ input.careerGoal # None => input.careerGoal[1] <= MaxGoalLength
    /\ input.experienceLevel # None
    /\ input.experienceLevel[1] \in {"junior", "mid", "senior"}
    /\ input.yearsOfExperience # None
    /\ input.yearsOfExperience[1] >= 0
    /\ input.focusAreas # None =>
           /\ Len(input.focusAreas[1]) <= MaxFocusAreas
           /\ \A i \in 1..Len(input.focusAreas[1]) : input.focusAreas[1][i] \in Categories

----------------------------------------------------------------------------
(* Initial state: empty collections, no request in flight *)

\* the quizzes already generated when the requests of Spec arrive
QuizCatalogue ==
    << Quiz(1, "security", "medium", 0),
       Quiz(2, "security", "hard", 1),
       Quiz(3, "logic", "easy", 0) >>

InitStore(qs) ==
    /\ users = [a \in Accounts |-> NoUser]
    /\ quizzes = qs
    /\ answers = <<>>
    /\ skillStats = [a \in Accounts |-> [c \in Categories |-> NoStat]]
    /\ milestones = <<>>
    /\ skillLog = EmptyBag
    /\ pc = [p \in Procs |-> "idle"]
    /\ loc = [p \in Procs |-> NoLoc]
    /\ result = NoResult
    /\ mpc = [d \in Detectors |-> "idle"]
    /\ margs = [d \in Detectors |-> NoArgs]
    /\ mpending = [d \in Detectors |-> <<>>]
    /\ histLen = 0
    /\ InitTeamVars([a \in AllAccounts |-> NoProfile])

Init == InitStore(QuizCatalogue)

----------------------------------------------------------------------------
(* Collaborators that fill the users and quizzes collections *)

\* getOrCreateUser: creates the user document when it is missing
GetOrCreateUser(accountId) ==
    /\ ~users[accountId].exists
    /\ users' = [users EXCEPT ![accountId] = NewUser]
    /\ UNCHANGED <<quizzes, answers, skillStats, milestones, skillLog,
                   pc, loc, result>>
    /\ UNCHANGED detectorVars
    /\ UNCHANGED teamVars
    /\ UNCHANGED recVars

\* createQuiz: stores a generated quiz under a fresh id
CreateQuiz(category, difficulty, correctAnswerIndex) ==
    /\ quizzes' = Append(quizzes,
                         Quiz(Len(quizzes) + 1, category, difficulty, correctAnswerIndex))
    /\ UNCHANGED <<users, answers, skillStats, milestones, skillLog,
                   pc, loc, result>>
    /\ UNCHANGED detectorVars
    /\ UNCHANGED teamVars
    /\ UNCHANGED recVars

----------------------------------------------------------------------------
(* handleAnswerCommand(accountId, quiz, answerIndex), one step per await *)

Returned(p, r) ==
    /\ pc' = [pc EXCEPT ![p] = "idle"]
    /\ loc' = [loc EXCEPT ![p] = NoLoc]
    /\ result' = r

\* requests in flight that have not yet passed createAnswer
MayCreate == {p \in Procs : pc[p] \in {"getAnswers", "createAnswer"}}

\* the call: arguments bound, nothing read yet
Start(p, accountId, quizId, answerIndex) ==
    /\ pc[p] = "idle"
    /\ quizId \in 1..Len(quizzes)
    /\ pc' = [pc EXCEPT ![p] = "getAnswers"]
    /\ loc' = [loc EXCEPT ![p] = [NoLoc EXCEPT !.accountId = accountId,
                                               !.quizId = quizId,
                                               !.answerIndex = answerIndex]]
    /\ UNCHANGED result
    /\ UNCHANGED storeVars
    /\ UNCHANGED detectorVars
    /\ UNCHANGED teamVars
    /\ UNCHANGED recVars

\* lines 53-81: the already-answered check and the correctness judgement
GetAnswers(p) ==
    /\ pc[p] = "getAnswers"
    /\ LET userAnswer == findUserAnswer(loc[p].accountId, loc[p].quizId)
           quiz == quizzes[loc[p].quizId]
       IN IF userAnswer # 0
          THEN /\ pc' = [pc EXCEPT ![p] = "alreadyAnswered"]
               /\ loc' = [loc EXCEPT ![p].answerId = userAnswer]
          ELSE /\ pc' = [pc EXCEPT ![p] = "createAnswer"]
               /\ loc' = [loc EXCEPT ![p].isCorrect =
                              (loc[p].answerIndex = quiz.correctAnswerIndex)]
    /\ UNCHANGED result
    /\ UNCHANGED storeVars
    /\ UNCHANGED detectorVars
    /\ UNCHANGED teamVars
    /\ UNCHANGED recVars

\* lines 65-77: the already-answered result
AlreadyAnswered(p) ==
    /\ pc[p] = "alreadyAnswered"
    /\ Returned(p, [status |-> "ok", proc |-> p, alreadyAnswered |-> TRUE,
                    answerId |-> loc[p].answerId,
                    newMilestones |-> <<>>])
    /\ UNCHANGED storeVars
    /\ UNCHANGED detectorVars
    /\ UNCHANGED teamVars
    /\ UNCHANGED recVars

\* lines 84-91: createAnswer
CreateAnswer(p) ==
    /\ pc[p] = "createAnswer"
    /\ LET answerId == Len(answers) + 1
       IN /\ answers' = Append(answers,
                               createAnswer(answerId, loc[p].accountId,
                                            loc[p].answerIndex, quizzes[loc[p].quizId]))
          /\ loc' = [loc EXCEPT ![p].answerId = answerId]
    /\ pc' = [pc EXCEPT ![p] = "updateUserStats"]
    /\ UNCHANGED <<users, quizzes, skillStats, milestones, skillLog, result>>
    /\ UNCHANGED detectorVars
    /\ UNCHANGED teamVars
    /\ UNCHANGED recVars

\* line 94: updateUserStats; docRef.update rejects when the document is missing,
\* and the catch block of handleAnswerCommand rethrows
UpdateUserStats(p) ==
    /\ pc[p] = "updateUserStats"
    /\ IF users[loc[p].accountId].exists
       THEN /\ users' = [users EXCEPT ![loc[p].accountId] =
                             incrementUser(@, loc[p].isCorrect)]
            /\ pc' = [pc EXCEPT ![p] = "getSkillDoc"]
            /\ UNCHANGED <<loc, result>>
       ELSE /\ Returned(p, [status |-> "threw", proc |-> p])
            /\ UNCHANGED users
    /\ UNCHANGED <<quizzes, answers, skillStats, milestones, skillLog>>
    /\ UNCHANGED detectorVars
    /\ UNCHANGED teamVars
    /\ UNCHANGED recVars

\* updateSkillStats, firestore.ts line 395: docRef.get
GetSkillDoc(p) ==
    /\ pc[p] = "getSkillDoc"
    /\ loc' = [loc EXCEPT ![p].doc =
                   skillStats[loc[p].accountId][quizzes[loc[p].quizId].category]]
    /\ pc' = [pc EXCEPT ![p] = "writeSkillDoc"]
    /\ UNCHANGED result
    /\ UNCHANGED storeVars
    /\ UNCHANGED detectorVars
    /\ UNCHANGED teamVars
    /\ UNCHANGED recVars

\* updateSkillStats, firestore.ts lines 402-452: docRef.update or docRef.set
WriteSkillDoc(p) ==
    /\ pc[p] = "writeSkillDoc"
    /\ LET quiz == quizzes[loc[p].quizId]
       IN /\ skillStats' = [skillStats EXCEPT ![loc[p].accountId][quiz.category] =
                                writtenSkillStats(loc[p].doc, quiz.difficulty,
                                                  loc[p].isCorrect)]
          /\ skillLog' = skillLog (+) SetToBag({SkillInput(loc[p].accountId, quiz.category,
                                                          quiz.difficulty, loc[p].isCorrect)})
    /\ pc' = [pc EXCEPT ![p] = "getStats"]
    /\ loc' = [loc EXCEPT ![p].doc = NoStat]
    /\ UNCHANGED <<users, quizzes, answers, milestones, result>>
    /\ UNCHANGED detectorVars
    /\ UNCHANGED teamVars
    /\ UNCHANGED recVars

\* lines 105-131: the stats are read back, newMilestones stays empty, the result
\* is returned
Return(p) ==
    /\ pc[p] = "getStats"
    /\ Returned(p, [status |-> "ok", proc |-> p, alreadyAnswered |-> FALSE,
                    answerId |-> loc[p].answerId,
                    newMilestones |-> <<>>])
    /\ UNCHANGED storeVars
    /\ UNCHANGED detectorVars
    /\ UNCHANGED teamVars
    /\ UNCHANGED recVars

\* lines 132-141: an awaited storage call rejects; the error is logged and rethrown
Fail(p) ==
    /\ pc[p] \in {"getAnswers", "alreadyAnswered", "createAnswer", "updateUserStats",
                  "getSkillDoc", "writeSkillDoc", "getStats"}
    /\ Returned(p, [status |-> "threw", proc |-> p])
    /\ UNCHANGED storeVars
    /\ UNCHANGED detectorVars
    /\ UNCHANGED teamVars
    /\ UNCHANGED recVars

Idle == \A p \in Procs : pc[p] = "idle"

----------------------------------------------------------------------------
(* checkAndCreateMilestones(accountId, answer, user, skillStats) *)

\* lines 541-600: the call, the rules and the existence query
CheckAndCreateMilestones(d, accountId, answerId, user, stat) ==
    /\ mpc[d] = "idle"
    /\ answerId \in 1..Len(answers)
    /\ mpc' = [mpc EXCEPT ![d] = "create"]
    /\ margs' = [margs EXCEPT ![d] = [accountId |-> accountId, answerId |-> answerId,
                                      user |-> user, skillStats |-> stat]]
    /\ mpending' = [mpending EXCEPT ![d] =
                        detectMilestones(accountId, answers[answerId], user, stat)]
    /\ UNCHANGED <<pc, loc, result, histLen>>
    /\ UNCHANGED teamVars
    /\ UNCHANGED recVars
    /\ UNCHANGED storeVars

\* lines 603-605 and createGrowthMilestone: one pass of the creation loop
CreateGrowthMilestone(d) ==
    /\ mpc[d] = "create"
    /\ mpending[d] # <<>>
    /\ milestones' = Append(milestones, Head(mpending[d]))
    /\ mpending' = [mpending EXCEPT ![d] = Tail(@)]
    /\ UNCHANGED <<users, quizzes, answers, skillStats, skillLog>>
    /\ UNCHANGED <<pc, loc, result, mpc, margs, histLen>>
    /\ UNCHANGED teamVars
    /\ UNCHANGED recVars

\* line 606: the loop is over, the function returns
MilestonesDone(d) ==
    /\ mpc[d] = "create"
    /\ mpending[d] = <<>>
    /\ mpc' = [mpc EXCEPT ![d] = "idle"]
    /\ UNCHANGED <<pc, loc, result, margs, mpending, histLen>>
    /\ UNCHANGED teamVars
    /\ UNCHANGED recVars
    /\ UNCHANGED storeVars

DetectorsIdle == \A d \in Detectors : mpc[d] = "idle"

----------------------------------------------------------------------------
(* Spec: the program as wired, requests interleaving, storage calls may fail *)

\* fewer than n Answer documents exist or can still be created by the requests
\* in flight
RoomFor(n) == Len(answers) + Cardinality(MayCreate) < n

Next ==
    \/ \E a \in Accounts : GetOrCreateUser(a)
    \/ \E p \in Procs, a \in Accounts, q \in 1..Len(quizzes), i \in AnswerIndexes :
           RoomFor(MaxAnswers) /\ Start(p, a, q, i)
    \/ \E p \in Procs : GetAnswers(p)
    \/ \E p \in Procs : AlreadyAnswered(p)
    \/ \E p \in Procs : CreateAnswer(p)
    \/ \E p \in Procs : UpdateUserStats(p)
    \/ \E p \in Procs : GetSkillDoc(p)
    \/ \E p \in Procs : WriteSkillDoc(p)
    \/ \E p \in Procs : Return(p)
    \/ \E p \in Procs : Fail(p)

Spec == Init /\ [][Next]_vars


----------------------------------------------------------------------------
(* SpecSeq: one request at a time, no storage failure; quizzes of every kind *)

\* no request and no milestone check in flight
Quiet == Idle /\ DetectorsIdle

SeqNext(categories, difficulties, correctIndexes, maxAnswers) ==
    \/ \E a \in Accounts : Quiet /\ GetOrCreateUser(a)
    \/ \E c \in categories, d \in difficulties, i \in correctIndexes :
           Quiet /\ Len(quizzes) <= Len(answers) /\ CreateQuiz(c, d, i)
    \/ \E a \in Accounts, q \in 1..Len(quizzes), i \in AnswerIndexes :
           Quiet /\ Len(answers) < maxAnswers /\ Start("r1", a, q, i)
    \/ GetAnswers("r1")
    \/ AlreadyAnswered("r1")
    \/ CreateAnswer("r1")
    \/ UpdateUserStats("r1")
    \/ GetSkillDoc("r1")
    \/ WriteSkillDoc("r1")
    \/ Return("r1")

InitSeq == InitStore(<<>>)

NextSeq == SeqNext(QuizCategories, Difficulties, {0}, MaxSeqAnswers)

SpecSeq == InitSeq /\ [][NextSeq]_vars

----------------------------------------------------------------------------
(* SpecE2E: the end-to-end scenario, a new user answering security quizzes of
   medium difficulty one after the other *)

NextE2E == SeqNext({"security"}, {"medium"}, {0}, MaxScenarioAnswers)

SpecE2E == InitSeq /\ [][NextE2E]_vars


----------------------------------------------------------------------------
(* SpecMile: the data flow answer -> stats -> checkAndCreateMilestones.  Every
   new answer is followed by one checkAndCreateMilestones call that is given
   the answer, the user document and the category stat as stored after the
   update.  The behaviours start from a store in which the user has already
   answered histLen quizzes through handleAnswerCommand. *)

\* category and difficulty of the quizzes answered before
HistoryCategory == "security"
HistoryDifficulty == "medium"

\* <<answers given before, correct ones among them>>
Histories ==
    { <<0, 0>>, <<4, 4>>, <<4, 3>>, <<8, 8>>, <<9, 2>>, <<10, 9>>,
      <<48, 30>>, <<49, 49>>, <<50, 20>>, <<98, 98>>, <<99, 10>>, <<499, 400>>, <<999, 100>> }

HistoryQuizzes(n) ==
    [i \in 1..n |-> Quiz(i, HistoryCategory, HistoryDifficulty, 0)]

\* the first k answers were correct
HistoryAnswers(a, n, k) ==
    [i \in 1..n |-> createAnswer(i, a, IF i <= k THEN 0 ELSE 1, HistoryQuizzes(n)[i])]

HistoryStat(n, k) ==
    IF n = 0 THEN NoStat
    ELSE [exists |-> TRUE, totalQuizzes |-> n, correctCount |-> k,
          correctRate |-> Rat(k, n),
          averageDifficulty |-> RatOfInt(difficultyMap[HistoryDifficulty])]

HistoryLog(a, n, k) ==
    LET right == SkillInput(a, HistoryCategory, HistoryDifficulty, TRUE)
        wrong == SkillInput(a, HistoryCategory, HistoryDifficulty, FALSE)
    IN [x \in (IF k > 0 THEN {right} ELSE {}) \cup (IF n > k THEN {wrong} ELSE {}) |->
            IF x = right THEN k ELSE n - k]

InitHistory(n, k) ==
    /\ users = [a \in Accounts |-> [exists |-> TRUE, totalQuizzes |-> n,
                                    correctCount |-> k]]
    /\ quizzes = HistoryQuizzes(n)
    /\ answers = HistoryAnswers("alice", n, k)
    /\ skillStats = [a \in Accounts |->
                        [c \in Categories |->
                            IF c = HistoryCategory THEN HistoryStat(n, k) ELSE NoStat]]
    /\ milestones = <<>>
    /\ skillLog = HistoryLog("alice", n, k)
    /\ pc = [p \in Procs |-> "idle"]
    /\ loc = [p \in Procs |-> NoLoc]
    /\ result = NoResult
    /\ mpc = [d \in Detectors |-> "idle"]
    /\ margs = [d \in Detectors |-> NoArgs]
    /\ mpending = [d \in Detectors |-> <<>>]
    /\ histLen = n
    /\ InitTeamVars([a \in AllAccounts |-> NoProfile])

InitMile == \E h \in Histories : InitHistory(h[1], h[2])

\* the last request stored a new answer that no checkAndCreateMilestones call
\* has been given yet
Unchecked ==
    /\ result.status = "ok"
    /\ ~result.alreadyAnswered
    /\ margs["d1"].answerId # result.answerId

\* the call the data flow makes after the stats update
CheckAfterAnswer(d) ==
    /\ Quiet
    /\ Unchecked
    /\ LET answer == answers[result.answerId]
       IN CheckAndCreateMilestones(d, answer.accountId, result.answerId,
                                   users[answer.accountId],
                                   skillStats[answer.accountId][answer.category])

\* the quizzes the requests of SpecMile address: the last one of the history
\* and those created since
RecentQuizzes == {q \in 1..Len(quizzes) : q >= histLen}

NextMile ==
    \/ \E c \in QuizCategories :
           Quiet /\ ~Unchecked /\ Len(quizzes) <= Len(answers)
                 /\ CreateQuiz(c, HistoryDifficulty, 0)
    \/ \E a \in Accounts, q \in RecentQuizzes, i \in AnswerIndexes :
           Quiet /\ ~Unchecked /\ Len(answers) < histLen + MaxMileAnswers
                 /\ Start("r1", a, q, i)
    \/ GetAnswers("r1")
    \/ AlreadyAnswered("r1")
    \/ CreateAnswer("r1")
    \/ UpdateUserStats("r1")
    \/ GetSkillDoc("r1")
    \/ WriteSkillDoc("r1")
    \/ Return("r1")
    \/ CheckAfterAnswer("d1")
    \/ CreateGrowthMilestone("d1")
    \/ MilestonesDone("d1")

SpecMile == InitMile /\ [][NextMile]_vars

----------------------------------------------------------------------------
(* SpecRace: checkAndCreateMilestones invocations for the stored answers of
   one user, interleaving at their awaits.  Each invocation is given the user
   document and the category stat as stored at the call. *)

\* milestones stored or queued in one behaviour
MaxRaceMilestones == 3

\* the answers the invocations are made for: the last two stored
RaceAnswers == {i \in 1..Len(answers) : i >= Len(answers) - 1}

QueuedMilestones == Len(mpending["d1"]) + Len(mpending["d2"])

NextRace ==
    \/ \E d \in Detectors, id \in RaceAnswers :
           /\ Len(milestones) + QueuedMilestones < MaxRaceMilestones
           /\ CheckAndCreateMilestones(d, answers[id].accountId, id,
                                       users[answers[id].accountId],
                                       skillStats[answers[id].accountId][answers[id].category])
    \/ \E d \in Detectors : CreateGrowthMilestone(d)
    \/ \E d \in Detectors : MilestonesDone(d)

SpecRace == InitMile /\ [][NextRace]_vars


----------------------------------------------------------------------------
(* upsertUserProfile and calculateAndSaveTeamAnalytics, one step per await *)

\* what the steps below leave alone
answerVars == <<users, quizzes, skillStats, milestones, skillLog,
                pc, loc, result, mpc, margs, mpending, histLen, rin, rout, creq, nreq>>

TeamIdle == \A j \in Jobs : tpc[j] = "idle"

\* the clock, read between the runs
Tick ==
    /\ TeamIdle
    /\ now < MaxNow
    /\ now' = now + 1
    /\ UNCHANGED <<profiles, teamAnalytics, teamSeen, tpc, tloc, truns>>
    /\ UNCHANGED <<answers, answerVars>>

\* upsertUserProfile (lines 312-359)
UpsertUserProfile(input) ==
    /\ profiles' = [profiles EXCEPT ![input.accountId] =
                        upsertedProfile(profiles[input.accountId], input, now)]
    /\ UNCHANGED <<teamAnalytics, teamSeen, now, tpc, tloc, truns>>
    /\ UNCHANGED <<answers, answerVars>>

\* createAnswer (lines 199-224) for a quiz the user has not answered
RecordAnswer(accountId, quizId, selectedAnswerIndex) ==
    /\ findUserAnswer(accountId, quizId) = 0
    /\ answers' = Append(answers,
                         createAnswerAt(Len(answers) + 1, accountId,
                                        selectedAnswerIndex, quizzes[quizId], now))
    /\ UNCHANGED teamVars
    /\ UNCHANGED answerVars

\* lines 644-660: the period is parsed and the answers are fetched
FetchAnswers(j, period, experienceLevel, category) ==
    /\ tpc[j] = "idle"
    /\ tpc' = [tpc EXCEPT ![j] = IF experienceLevel # NoLevel THEN "profiles"
                                 ELSE "save"]
    /\ tloc' = [tloc EXCEPT ![j] =
                   [period |-> period, experienceLevel |-> experienceLevel,
                    category |-> category,
                    answers |-> fetchAnswers(period, category),
                    profileAccountIds |-> {}]]
    /\ truns' = truns + 1
    /\ UNCHANGED <<profiles, teamAnalytics, teamSeen, now>>
    /\ UNCHANGED <<answers, answerVars>>

\* lines 674-680: the profiles of the level are fetched
FetchProfiles(j) ==
    /\ tpc[j] = "profiles"
    /\ tpc' = [tpc EXCEPT ![j] = "save"]
    /\ tloc' = [tloc EXCEPT ![j].profileAccountIds =
                   profileAccountIdsOf(tloc[j].experienceLevel)]
    /\ UNCHANGED <<profiles, teamAnalytics, teamSeen, now, truns>>
    /\ UNCHANGED <<answers, answerVars>>

\* the record a run in flight is about to write
computedAnalytics(j) ==
    LET l == tloc[j]
    IN teamAnalyticsOf(l.period, l.experienceLevel, l.category, l.answers,
                       filteredUsersOf(userStatsOf(l.answers), l.experienceLevel,
                                       l.profileAccountIds),
                       now)

\* mutant: the counts are added to those of the stored record
storedAnalyticsAccumulated(existing, record) ==
    IF existing.exists
    THEN [record EXCEPT !.totalQuizzes = existing.totalQuizzes + @,
                        !.activeUsers = existing.activeUsers + @]
    ELSE record

\* mutant: a stored record is not written over
storedAnalyticsFirstWins(existing, record) ==
    IF existing.exists THEN existing ELSE record

\* line 734: doc(analyticsId).set(teamAnalytics) replaces the document
storedAnalytics(existing, record) == record

\* lines 686-742: the record is computed, stamped and written
SaveTeamAnalytics(j) ==
    /\ tpc[j] = "save"
    /\ LET record == computedAnalytics(j)
           id == record.analyticsId
       IN /\ teamAnalytics' = [teamAnalytics EXCEPT ![id] =
                                  storedAnalytics(teamAnalytics[id], record)]
          /\ teamSeen' = [teamSeen EXCEPT ![id] =
                             [inputs |-> <<answers, profiles>>,
                              reruns |-> IF @.inputs = <<answers, profiles>>
                                         THEN @.reruns + 1 ELSE 0]]
    /\ tpc' = [tpc EXCEPT ![j] = "idle"]
    /\ tloc' = [tloc EXCEPT ![j] = NoTeamLoc]
    /\ UNCHANGED <<profiles, now, truns>>
    /\ UNCHANGED <<answers, answerVars>>

----------------------------------------------------------------------------
(* SpecTeam: aggregation runs one at a time over a cohort of four users, with
   profile updates, new answers and the clock in between *)

\* the quizzes of the cohort: five in security and one in logic
TeamQuizCatalogue ==
    [i \in 1..6 |-> IF i <= 5 THEN Quiz(i, "security", "medium", 0)
                    ELSE Quiz(i, "logic", "easy", 0)]

\* per user: <<correct, total>> of the answers given in the first month
TallyChoices ==
    [u1 |-> {<<0, 0>>, <<1, 5>>}, u2 |-> {<<2, 5>>},
     u3 |-> {<<3, 5>>}, u4 |-> {<<0, 0>>, <<4, 5>>}]

\* per user: the level of the profile, NoLevel for no profile
LevelChoices ==
    [u1 |-> {NoLevel, "junior"}, u2 |-> {"junior", "senior"},
     u3 |-> {"junior"}, u4 |-> {"mid"}]

Cohorts ==
    {c \in [tally : [TeamAccounts -> {<<0, 0>>, <<1, 5>>, <<2, 5>>, <<3, 5>>,
                                       <<1, 1>>, <<4, 5>>}],
            level : [TeamAccounts -> Levels \cup {NoLevel}]] :
        \A a \in TeamAccounts : /\ c.tally[a] \in TallyChoices[a]
                                /\ c.level[a] \in LevelChoices[a]}

TeamOrder == <<"u1", "u2", "u3", "u4">>

RECURSIVE cohortAnswers(_, _, _)
\* the answers of the users from the i-th on, after the answers so far
cohortAnswers(tally, i, sofar) ==
    IF i > Len(TeamOrder) THEN sofar
    ELSE LET a == TeamOrder[i]
             mine == [k \in 1..tally[a][2] |->
                         createAnswerAt(Len(sofar) + k, a,
                                        IF k <= tally[a][1] THEN 0 ELSE 1,
                                        TeamQuizCatalogue[k], 0)]
         IN cohortAnswers(tally, i + 1, sofar \o mine)

cohortProfiles(level) ==
    [a \in AllAccounts |->
        IF a \in TeamAccounts /\ level[a] # NoLevel
        THEN upsertedProfile(NoProfile,
                             ProfileInput(a, None, Some(level[a]), Some(1),
                                          None, None), 0)
        ELSE NoProfile]

InitCohort(c) ==
    /\ users = [a \in Accounts |-> NoUser]
    /\ quizzes = TeamQuizCatalogue
    /\ answers = cohortAnswers(c.tally, 1, <<>>)
    /\ skillStats = [a \in Accounts |-> [k \in Categories |-> NoStat]]
    /\ milestones = <<>>
    /\ skillLog = EmptyBag
    /\ pc = [p \in Procs |-> "idle"]
    /\ loc = [p \in Procs |-> NoLoc]
    /\ result = NoResult
    /\ mpc = [d \in Detectors |-> "idle"]
    /\ margs = [d \in Detectors |-> NoArgs]
    /\ mpending = [d \in Detectors |-> <<>>]
    /\ histLen = Len(cohortAnswers(c.tally, 1, <<>>))
    /\ InitTeamVars(cohortProfiles(c.level))

InitTeam == \E c \in Cohorts : InitCohort(c)

\* the arguments of the runs of SpecTeam
TeamLevels == {NoLevel, "senior"}
TeamCategories == {NoCategory, "security"}

NextTeam ==
    \/ Tick
    \/ \E l \in {"senior"} :
           TeamIdle /\ ~(profiles["u1"].exists /\ profiles["u1"].experienceLevel = l)
                    /\ UpsertUserProfile(ProfileInput("u1", None, Some(l), None,
                                                      None, None))
    \/ \E i \in {0} :
           TeamIdle /\ Len(answers) < histLen + MaxTeamAnswers
                    /\ RecordAnswer("u2", 6, i)
    \/ \E p \in Periods, l \in TeamLevels, c \in TeamCategories :
           TeamIdle /\ truns < MaxTeamRuns /\ FetchAnswers("j1", p, l, c)
    \/ FetchProfiles("j1")
    \/ SaveTeamAnalytics("j1")

SpecTeam == InitTeam /\ [][NextTeam]_vars

----------------------------------------------------------------------------
(* SpecTeamRace: two aggregation runs in flight at once, for the same key or
   for different keys, with a profile update and a new answer at any point *)

NextTeamRace ==
    \/ Tick
    \/ \E l \in {"senior"} :
           /\ ~(profiles["u1"].exists /\ profiles["u1"].experienceLevel = l)
           /\ UpsertUserProfile(ProfileInput("u1", None, Some(l), None, None, None))
    \/ \E i \in {0} :
           Len(answers) < histLen + MaxTeamAnswers /\ RecordAnswer("u2", 6, i)
    \/ \E j \in Jobs, p \in Periods, l \in TeamLevels, c \in TeamCategories :
           truns < MaxTeamRuns /\ FetchAnswers(j, p, l, c)
    \/ \E j \in Jobs : FetchProfiles(j)
    \/ \E j \in Jobs : SaveTeamAnalytics(j)

\* the cohorts of SpecTeamRace: every user has answered
RaceCohorts ==
    {c \in Cohorts : /\ c.tally["u1"] = <<1, 5>>
                     /\ c.tally["u4"] = <<4, 5>>
                     /\ c.level["u2"] = "senior"}

InitTeamRace == \E c \in RaceCohorts : InitCohort(c)

SpecTeamRace == InitTeamRace /\ [][NextTeamRace]_vars

----------------------------------------------------------------------------
(* SpecRec: the personalization service applied to a profile and a stat list *)

\* what the service leaves alone
serviceFrame == <<answers, users, quizzes, skillStats, milestones, skillLog,
                  pc, loc, result, mpc, margs, mpending, histLen, teamVars, rin,
                  creq, nreq>>

\* no call of the service is between two of its steps
ServiceIdle == rout.op # "scoring"

\* selectOptimalCategory, lines 97-99: without a profile or without stats
\* Math.random picks among all categories
SelectRandomCategory ==
    /\ ServiceIdle
    /\ ~rin.profile.exists \/ Len(rin.skillStats) = 0
    /\ \E selectedIndex \in 1..Len(allCategories) :
           rout' = [op |-> "category", selected |-> allCategories[selectedIndex],
                    scores |-> <<>>]
    /\ UNCHANGED serviceFrame

\* selectOptimalCategory, lines 102-108: the scores, sorted
ScoreCategories ==
    /\ ServiceIdle
    /\ ~(~rin.profile.exists \/ Len(rin.skillStats) = 0)
    /\ rout' = [op |-> "scoring",
                scores |-> sortByScoreDescending(
                               categoryScoresOf(rin.profile, rin.skillStats))]
    /\ UNCHANGED serviceFrame

\* selectOptimalCategory, lines 111-121: Math.random picks among the top
\* categories; the scores are those it logs
SelectTopCategory ==
    /\ rout.op = "scoring"
    /\ \E selectedIndex \in 1..Len(topCategories(rout.scores)) :
           rout' = [op |-> "category",
                    selected |-> topCategories(rout.scores)[selectedIndex].category,
                    scores |-> rout.scores]
    /\ UNCHANGED serviceFrame

\* selectOptimalCategory (lines 84-122)
SelectOptimalCategory ==
    \/ SelectRandomCategory
    \/ ScoreCategories
    \/ SelectTopCategory

\* selectOptimalDifficulty for the stat row of a category
SelectOptimalDifficulty(category) ==
    /\ ServiceIdle
    /\ rout' = [op |-> "difficulty", category |-> category,
                difficulty |-> selectOptimalDifficulty(
                                   rin.profile, findStats(rin.skillStats, category))]
    /\ UNCHANGED serviceFrame

\* generateLearningRecommendations
GenerateLearningRecommendations ==
    /\ ServiceIdle
    /\ rout' = [op |-> "recommendations",
                recommendations |->
                    generateLearningRecommendations(rin.profile, rin.skillStats)]
    /\ UNCHANGED serviceFrame

\* the clock of SpecRec, in instants of DayLen to a day
RecNow == 24

\* the stat rows a category can have; NoStat for no row
RowChoices ==
    [security |->
        {NoStat,
         StatRow("security", 10, 2, Rat(3, 2), Some(RecNow - 20)),
         StatRow("security", 0, 0, RatOfInt(1), None),
         StatRow("security", 3, 3, RatOfInt(2), Some(RecNow - 13)),
         StatRow("security", 5, 4, Rat(12, 5), Some(RecNow - 5)),
         StatRow("security", 5, 2, RatOfInt(1), Some(RecNow - 14)),
         StatRow("security", 2, 0, RatOfInt(3), Some(RecNow - 6)),
         StatRow("security", 5, 3, RatOfInt(2), Some(RecNow)),
         StatRow("security", 10, 3, RatOfInt(2), Some(RecNow - 1)),
         StatRow("security", 10, 5, Rat(5, 2), Some(RecNow - 7)),
         StatRow("security", 4, 4, RatOfInt(3), Some(RecNow - 40)),
         StatRow("security", 4, 1, RatOfInt(1), Some(RecNow - 2)),
         StatRow("security", 6, 5, Rat(3, 2), None)},
     bug_fix |->
        {NoStat,
         StatRow("bug_fix", 0, 0, RatOfInt(1), None),
         StatRow("bug_fix", 10, 3, RatOfInt(2), Some(RecNow - 2))},
     performance |->
        {NoStat, StatRow("performance", 5, 4, Rat(12, 5), Some(RecNow - 14))},
     refactoring |->
        {NoStat, StatRow("refactoring", 4, 2, RatOfInt(1), Some(RecNow - 6))},
     logic |->
        {NoStat, StatRow("logic", 10, 2, Rat(3, 2), Some(RecNow - 20))}]

RecProfile(experienceLevel, focusAreas) ==
    upsertedProfile(NoProfile,
                    ProfileInput("alice", None, experienceLevel, Some(3),
                                 Some(focusAreas), None), 0)

\* the profiles handed in: none, one per level, and one whose level is missing
RecProfiles ==
    {NoProfile,
     RecProfile(Some("junior"), <<>>),
     RecProfile(Some("mid"), <<"security">>),
     RecProfile(Some("senior"), <<"logic", "bug_fix">>),
     RecProfile(None, <<"security">>)}

reverse(list) == [i \in 1..Len(list) |-> list[Len(list) + 1 - i]]

\* the rows that exist, in the order of allCategories
statList(rows) ==
    SelectSeq([i \in 1..Len(allCategories) |-> rows[allCategories[i]]],
              LAMBDA x : x.exists)

InitRec ==
    /\ users = [a \in Accounts |-> NoUser]
    /\ quizzes = <<>>
    /\ answers = <<>>
    /\ skillStats = [a \in Accounts |-> [k \in Categories |-> NoStat]]
    /\ milestones = <<>>
    /\ skillLog = EmptyBag
    /\ pc = [p \in Procs |-> "idle"]
    /\ loc = [p \in Procs |-> NoLoc]
    /\ result = NoResult
    /\ mpc = [d \in Detectors |-> "idle"]
    /\ margs = [d \in Detectors |-> NoArgs]
    /\ mpending = [d \in Detectors |-> <<>>]
    /\ histLen = 0
    /\ profiles = [a \in AllAccounts |-> NoProfile]
    /\ teamAnalytics = [k \in AnalyticsIds |-> NoAnalytics]
    /\ teamSeen = [k \in AnalyticsIds |-> NoSeen]
    /\ now = RecNow
    /\ tpc = [j \in Jobs |-> "idle"]
    /\ tloc = [j \in Jobs |-> NoTeamLoc]
    /\ truns = 0
    /\ \E profile \in RecProfiles, backwards \in BOOLEAN :
       \E r1 \in RowChoices.bug_fix, r2 \in RowChoices.performance,
          r3 \in RowChoices.refactoring, r4 \in RowChoices.security,
          r5 \in RowChoices.logic :
           LET rows == [bug_fix |-> r1, performance |-> r2, refactoring |-> r3,
                        security |-> r4, logic |-> r5]
           IN rin = [profile |-> profile,
                     skillStats |-> IF backwards THEN reverse(statList(rows))
                                    ELSE statList(rows)]
    /\ rout = NoOutput
    /\ creq = [c \in Comments |-> NoRequest]
    /\ nreq = 0

NextRec ==
    \/ SelectOptimalCategory
    \/ \E c \in Categories : SelectOptimalDifficulty(c)
    \/ GenerateLearningRecommendations

SpecRec == InitRec /\ [][NextRec]_vars

----------------------------------------------------------------------------
(* POST /api/comment/process (commentRoutes), handleProfileCommandInComment,
   handleAnswerCommandInComment, handleProfileCommand, and
   PUT /:accountId/profile.  One step per await; postPRComment is not a
   storage call and is taken to succeed. *)

\* the handleAnswerCommand invocation of a request
procOf == [c1 |-> "r1", c2 |-> "r2"]

\* no request is inside handleAnswerCommandInComment
NoAnswerInFlight == \A c \in Comments : creq[c].pc \notin {"findQuiz", "handleAnswer"}

commentFrame == <<rin, rout>>

\* part_001 lines 40-83, and the wrappers up to their first storage call
\* (webhook.ts lines 156-183 and 228-253)
ProcessComment(c, accountId, body) ==
    /\ creq[c].pc = "idle"
    /\ nreq' = nreq + 1
    /\ LET commandType == detectCommandType(body)
           request == [NoRequest EXCEPT !.accountId = accountId, !.body = body]
       IN creq' = [creq EXCEPT ![c] =
              CASE commandType = "null" ->
                       [NoRequest EXCEPT !.response = "no_command"]
                [] commandType = "profile" ->
                       LET command == parseProfileCommand(body)
                       IN IF command = None \/ command = Some(EmptyCommand)
                          THEN [request EXCEPT !.pc = "respond"]
                          ELSE [request EXCEPT !.pc = "getProfile",
                                               !.command = command[1]]
                [] commandType = "answer" ->
                       LET answerIndex == parseAnswerCommand(body)
                       IN IF answerIndex = None
                          THEN [request EXCEPT !.pc = "respond"]
                          ELSE [request EXCEPT !.pc = "findQuiz",
                                               !.command = answerIndex[1]]]
    /\ (detectCommandType(body) = "answer") => NoAnswerInFlight
    /\ UNCHANGED <<storeVars, detectorVars, teamVars, pc, loc, result, commentFrame>>

\* handleProfileCommand, line 782: getUserProfile
GetUserProfile(c) ==
    /\ creq[c].pc = "getProfile"
    /\ creq' = [creq EXCEPT ![c].existing = profiles[creq[c].accountId],
                            ![c].pc = "upsert"]
    /\ UNCHANGED <<storeVars, detectorVars, teamVars, pc, loc, result, commentFrame, nreq>>

\* handleProfileCommand, lines 786-797: the input is built and upsertUserProfile
\* writes it
UpsertFromCommand(c) ==
    /\ creq[c].pc = "upsert"
    /\ profiles' = [profiles EXCEPT ![creq[c].accountId] =
                        upsertedProfile(@, profileInputOf(creq[c].accountId,
                                                          creq[c].command,
                                                          creq[c].existing), now)]
    /\ creq' = [creq EXCEPT ![c].pc = "respond"]
    /\ UNCHANGED <<teamAnalytics, teamSeen, now, tpc, tloc, truns>>
    /\ UNCHANGED <<storeVars, detectorVars, pc, loc, result, commentFrame, nreq>>

\* handleProfileCommand, lines 814-828: getUserProfile or upsertUserProfile
\* rejects; the catch block returns { success: false, message } and the
\* wrapper posts the message
ProfileStorageFails(c) ==
    /\ creq[c].pc \in {"getProfile", "upsert"}
    /\ creq' = [creq EXCEPT ![c].failed = TRUE, ![c].pc = "respond"]
    /\ UNCHANGED <<storeVars, detectorVars, teamVars, pc, loc, result, commentFrame, nreq>>

\* handleAnswerCommandInComment, lines 253-265: findQuizForAnswer finds a quiz
\* or none
FindQuiz(c) ==
    /\ creq[c].pc = "findQuiz"
    /\ \/ /\ creq' = [creq EXCEPT ![c].pc = "respond"]
          /\ UNCHANGED result
       \/ \E q \in 1..Len(quizzes) :
              /\ creq' = [creq EXCEPT ![c].quiz = q, ![c].pc = "handleAnswer"]
              /\ result' = NoResult
    /\ UNCHANGED <<storeVars, detectorVars, teamVars, pc, loc, commentFrame, nreq>>

\* findQuizForAnswer rejects (getQuiz, getLatestQuizForPR); the catch block of
\* the wrapper (lines 288-304) posts the error and returns
FindQuizFails(c) ==
    /\ creq[c].pc = "findQuiz"
    /\ creq' = [creq EXCEPT ![c].failed = TRUE, ![c].pc = "respond"]
    /\ UNCHANGED <<storeVars, detectorVars, teamVars, pc, loc, result, commentFrame, nreq>>

\* handleAnswerCommandInComment, line 269: the call of handleAnswerCommand
CallHandleAnswer(c) ==
    /\ creq[c].pc = "handleAnswer"
    /\ result = NoResult
    /\ Start(procOf[c], creq[c].accountId, creq[c].quiz, creq[c].command)

\* handleAnswerCommandInComment, lines 269-304: handleAnswerCommand has
\* returned or thrown; the result or the error is posted and the wrapper
\* returns
AnswerHandled(c) ==
    /\ creq[c].pc = "handleAnswer"
    /\ pc[procOf[c]] = "idle"
    /\ result # NoResult
    /\ creq' = [creq EXCEPT ![c].failed = (result.status = "threw"),
                            ![c].pc = "respond"]
    /\ UNCHANGED <<storeVars, detectorVars, teamVars, pc, loc, result, commentFrame, nreq>>

\* part_001 lines 107-113: the wrapper has returned; the response is
\* { success: true, message: "Command processed successfully" }
Respond(c) ==
    /\ creq[c].pc = "respond"
    /\ creq' = [creq EXCEPT ![c] = [NoRequest EXCEPT !.failed = creq[c].failed,
                                                    !.response = "success"]]
    /\ UNCHANGED <<storeVars, detectorVars, teamVars, pc, loc, result, commentFrame, nreq>>

\* PUT /:accountId/profile (part_000 lines 22-48): a body the schema rejects
\* is answered with a ValidationError before upsertUserProfile
PutProfile(input) ==
    /\ validProfileInput(input)
    /\ nreq' = nreq + 1
    /\ profiles' = [profiles EXCEPT ![input.accountId] =
                        upsertedProfile(@, input, now)]
    /\ UNCHANGED <<teamAnalytics, teamSeen, now, tpc, tloc, truns>>
    /\ UNCHANGED <<storeVars, detectorVars, pc, loc, result, commentFrame, creq>>

----------------------------------------------------------------------------
(* SpecComment: comment requests and profile API calls for one user, the
   comment requests interleaving at their awaits, storage calls may fail *)

\* requests received in one behaviour
MaxRequests == 2

FiveAreas == <<"security", "logic", "bug_fix", "performance", "refactoring">>

\* the key=value matches of the /profile comments
ParamLists ==
    { <<>>,
      << Param("foo", "bar") >>,
      << Param("experience", "senior") >>,
      << Param("exp", "MID") >>,
      << Param("experience", "expert") >>,
      << Param("years", <<"3">>) >>,
      << Param("Years", <<"1", "2">>) >>,
      << Param("years", <<"-", "1">>) >>,
      << Param("years", <<"x">>) >>,
      << Param("years", <<"3", "x">>) >>,
      << Param("focus", <<"security">>) >>,
      << Param("focus", <<"logic", "", "bug_fix">>) >>,
      << Param("focus", <<"security", "security">>) >>,
      << Param("focus", FiveAreas) >>,
      << Param("focus", FiveAreas \o <<"logic">>) >>,
      << Param("focus", <<"frontend">>) >>,
      << Param("goal", 10) >>,
      << Param("goal", 501) >>,
      << Param("experience", "junior"), Param("focus", <<"logic">>) >>,
      << Param("experience", "senior"), Param("years", <<"-", "1">>) >>,
      << Param("goal", 501), Param("experience", "senior") >>,
      << Param("focus", <<"logic">>), Param("experience", "expert") >>,
      << Param("years", <<"3">>), Param("focus", <<"frontend">>) >> }

AnswerTexts ==
    { <<>>, <<"1">>, <<"2">>, <<"4">>, <<"0">>, <<"5">>, <<"-", "1">>, <<"x">>,
      <<"1", "2">>, <<"2", "x">> }

CommentBodies ==
    {CommentBody("/profile", params, <<>>) : params \in ParamLists}
    \cup {CommentBody("/Profile", << Param("FOCUS", <<"logic">>) >>, <<>>)}
    \cup {CommentBody("/answer", <<>>, text) : text \in AnswerTexts}
    \cup {CommentBody("/ANSWER", <<>>, <<"1">>), CommentBody("thanks", <<>>, <<>>)}

\* the comments of the second request slot, which run beside those of the
\* first
BesideBodies ==
    { CommentBody("/Profile", << Param("FOCUS", <<"logic">>) >>, <<>>),
      CommentBody("/profile", << Param("experience", "senior") >>, <<>>),
      CommentBody("/answer", <<>>, <<"1">>) }

BodiesOf == [c1 |-> CommentBodies, c2 |-> BesideBodies]

\* the bodies of PUT /:accountId/profile
ApiInputs ==
    { ProfileInput("alice", None, Some("mid"), Some(3), None, None),
      ProfileInput("alice", Some(10), Some("junior"), Some(0),
                   Some(<<"logic", "logic">>), None),
      ProfileInput("alice", None, Some("senior"), Some(8),
                   Some(<<"performance">>), Some("rated")),
      ProfileInput("alice", None, Some("senior"), Some(8),
                   Some(FiveAreas \o <<"logic">>), None),
      ProfileInput("alice", Some(501), Some("mid"), Some(3), None, None),
      ProfileInput("alice", None, None, Some(3), None, None),
      ProfileInput("alice", None, Some("mid"), Some(-1), None, None) }

\* the profile alice has when the requests arrive: none, or one set before
StoredProfiles ==
    { NoProfile,
      upsertedProfile(NoProfile,
                      ProfileInput("alice", Some(10), Some("junior"), Some(1),
                                   Some(<<"security">>), Some("rated")), 0) }

InitComment ==
    /\ users = [a \in Accounts |-> NoUser]
    /\ quizzes = QuizCatalogue
    /\ answers = <<>>
    /\ skillStats = [a \in Accounts |-> [c \in Categories |-> NoStat]]
    /\ milestones = <<>>
    /\ skillLog = EmptyBag
    /\ pc = [p \in Procs |-> "idle"]
    /\ loc = [p \in Procs |-> NoLoc]
    /\ result = NoResult
    /\ mpc = [d \in Detectors |-> "idle"]
    /\ margs = [d \in Detectors |-> NoArgs]
    /\ mpending = [d \in Detectors |-> <<>>]
    /\ histLen = 0
    /\ \E stored \in StoredProfiles :
           InitTeamVars([a \in AllAccounts |-> IF a = "alice" THEN stored ELSE NoProfile])

\* no comment request is in flight
CommentsIdle == \A c \in Comments : creq[c].pc = "idle"

NextComment ==
    \/ \E a \in Accounts : CommentsIdle /\ GetOrCreateUser(a)
    \/ CommentsIdle /\ Tick
    \/ \E c \in Comments, a \in Accounts : \E body \in BodiesOf[c] :
           nreq < MaxRequests /\ ProcessComment(c, a, body)
    \/ \E c \in Comments : GetUserProfile(c)
    \/ \E c \in Comments : UpsertFromCommand(c)
    \/ \E c \in Comments : ProfileStorageFails(c)
    \/ \E c \in Comments : FindQuiz(c)
    \/ \E c \in Comments : FindQuizFails(c)
    \/ \E c \in Comments : CallHandleAnswer(c)
    \/ \E c \in Comments : AnswerHandled(c)
    \/ \E c \in Comments : Respond(c)
    \/ \E input \in ApiInputs : nreq < MaxRequests /\ PutProfile(input)
    \/ \E p \in Procs : GetAnswers(p)
    \/ \E p \in Procs : AlreadyAnswered(p)
    \/ \E p \in Procs : CreateAnswer(p)
    \/ \E p \in Procs : UpdateUserStats(p)
    \/ \E p \in Procs : GetSkillDoc(p)
    \/ \E p \in Procs : WriteSkillDoc(p)
    \/ \E p \in Procs : Return(p)
    \/ \E p \in Procs : Fail(p)

SpecComment == InitComment /\ [][NextComment]_vars

----------------------------------------------------------------------------
(* Vocabulary of the properties *)

\* the part of the updateSkillStats log that satisfies P
LogBag(P(_)) == [x \in {y \in DOMAIN skillLog : P(y)} |-> skillLog[x]]

\* completed updateSkillStats calls for (a, c)
CallsCompleted(a, c) ==
    LET Of(x) == x.accountId = a /\ x.category = c
    IN BagCardinality(LogBag(Of))

\* those of them that carried a correct answer
CorrectCalls(a, c) ==
    LET Of(x) == x.accountId = a /\ x.category = c /\ x.isCorrect
    IN BagCardinality(LogBag(Of))

CallsAt(a, c, d) ==
    LET Of(x) == x.accountId = a /\ x.category = c /\ x.difficulty = d
    IN BagCardinality(LogBag(Of))

\* sum of the difficulty values of the completed calls, easy=1 medium=2 hard=3
DifficultySum(a, c) ==
    CallsAt(a, c, "easy") + 2 * CallsAt(a, c, "medium") + 3 * CallsAt(a, c, "hard")

StatTotal(a, c) ==
    IF skillStats[a][c].exists THEN skillStats[a][c].totalQuizzes ELSE 0

AnswersIn(a, c) ==
    {i \in 1..Len(answers) : answers[i].accountId = a /\ answers[i].category = c}

\* every Answer document is about another (user, quiz)
NoQuizAnsweredTwice ==
    \A i, j \in 1..Len(answers) :
        (answers[i].accountId = answers[j].accountId /\ answers[i].quizId = answers[j].quizId)
            => i = j

MilestoneTypes(list) == {list[i].type : i \in 1..Len(list)}

MasterCount(a, c) ==
    Cardinality({i \in 1..Len(milestones) :
                    /\ milestones[i].type = "category_master"
                    /\ milestones[i].accountId = a
                    /\ milestones[i].category = c})

\* rate >= 0.8 and at least 5 attempts
Qualifies(stat) ==
    /\ stat.exists
    /\ 5 * stat.correctRate.num >= 4 * stat.correctRate.den
    /\ stat.totalQuizzes >= 5

----------------------------------------------------------------------------
(* C1 *)

\* C1: when N updateSkillStats invocations for one (user, category) have
\* interleaved and all have finished, the stored totalQuizzes equals N: no
\* increment is lost.  The code reads the document and writes it back in two
\* separate storage calls, and TLC finds the interleaving that loses one.
C1_NoLostIncrement ==
    (Idle /\ NoQuizAnsweredTwice) =>
        \A a \in Accounts, c \in Categories : StatTotal(a, c) = CallsCompleted(a, c)

----------------------------------------------------------------------------
(* C3 *)

\* C3: once no handleAnswerCommand invocation is in progress, every persisted
\* Answer of the user is counted: the category stat's totalQuizzes equals the
\* number of the user's Answer documents of that category, also after a
\* failure behind createAnswer and a retry.
C3_EveryAnswerCounted ==
    Idle => \A a \in Accounts, c \in Categories :
                StatTotal(a, c) = Cardinality(AnswersIn(a, c))

----------------------------------------------------------------------------
(* C7 *)

\* C7: correctCount <= totalQuizzes in every stored category stat, in every
\* reachable state, whatever the answers and however the requests interleave.
C7_CorrectWithinTotal ==
    \A a \in Accounts, c \in Categories :
        skillStats[a][c].exists =>
            /\ 0 <= skillStats[a][c].correctCount
            /\ skillStats[a][c].correctCount <= skillStats[a][c].totalQuizzes

\* a stat updated by a correct and by an incorrect answer
C7_Witness ==
    \E a \in Accounts, c \in Categories :
        /\ skillStats[a][c].exists
        /\ skillStats[a][c].totalQuizzes = 2
        /\ skillStats[a][c].correctCount = 1
        /\ CorrectCalls(a, c) = 1


----------------------------------------------------------------------------
(* C4 *)

\* C4: when handleAnswerCommand has returned for a new answer, every milestone
\* that answer unlocks (by the rules of checkAndCreateMilestones applied to
\* the updated stat and the cumulative user totals) is in the returned
\* newMilestones and in the milestones collection.  The handler never calls
\* checkAndCreateMilestones, so a first correct answer already breaks it.
C4_UnlockedMilestonesReturned ==
    (Quiet /\ result.status = "ok" /\ ~result.alreadyAnswered) =>
        LET answer == answers[result.answerId]
            a == answer.accountId
            unlocked == detectMilestones(a, answer, users[a], skillStats[a][answer.category])
        IN /\ MilestoneTypes(unlocked) \subseteq MilestoneTypes(result.newMilestones)
           /\ MilestoneTypes(unlocked) \subseteq MilestoneTypes(milestones)

----------------------------------------------------------------------------
(* C5 *)

\* the scenario has run: five answers in security at medium difficulty, the
\* first four correct and the fifth incorrect, each counted by updateSkillStats
ScenarioDone ==
    /\ Quiet
    /\ Len(answers) = 5
    /\ \A i \in 1..5 : /\ answers[i].accountId = "alice"
                       /\ answers[i].quizId = i
                       /\ answers[i].category = "security"
                       /\ answers[i].difficulty = "medium"
                       /\ answers[i].isCorrect = (i <= 4)
    /\ CallsCompleted("alice", "security") = 5

\* C5: at the end of the scenario the stat is totalQuizzes=5, correctCount=4,
\* correctRate=0.8, averageDifficulty=2.0 and a category_master milestone for
\* (alice, security) has been created at the fifth answer.  The stat is as
\* claimed; the milestone is missing because handleAnswerCommand never runs
\* the milestone check (C4).
C5_ScenarioEndState ==
    ScenarioDone =>
        /\ skillStats["alice"]["security"] =
               [exists |-> TRUE, totalQuizzes |-> 5, correctCount |-> 4,
                correctRate |-> [num |-> 4, den |-> 5],
                averageDifficulty |-> [num |-> 2, den |-> 1]]
        /\ \E i \in 1..Len(milestones) :
               /\ milestones[i].type = "category_master"
               /\ milestones[i].accountId = "alice"
               /\ milestones[i].category = "security"
               /\ milestones[i].metadata.totalQuizzes = 5

----------------------------------------------------------------------------
(* C6 *)

\* C6: after the first N sequential updateSkillStats calls of a (user,
\* category), averageDifficulty is the arithmetic mean of the N difficulty
\* values (easy=1, medium=2, hard=3): averageDifficulty = sum / N, and
\* averageDifficulty * totalQuizzes = sum.
C6_AverageIsMean ==
    \A a \in Accounts, c \in Categories :
        skillStats[a][c].exists =>
            /\ CallsCompleted(a, c) > 0
            /\ skillStats[a][c].averageDifficulty =
                   Rat(DifficultySum(a, c), CallsCompleted(a, c))
            /\ RatMulInt(skillStats[a][c].averageDifficulty, skillStats[a][c].totalQuizzes)
                   = RatOfInt(DifficultySum(a, c))

\* three calls whose mean is not an integer
C6_Witness ==
    \E a \in Accounts, c \in Categories :
        /\ skillStats[a][c].exists
        /\ CallsCompleted(a, c) = 3
        /\ skillStats[a][c].averageDifficulty.den = 3

----------------------------------------------------------------------------
(* C8 *)

\* C8: after N sequential updateSkillStats calls of a (user, category) starting
\* from no stat, the stat has totalQuizzes = N, correctCount = the number of
\* correct answers among them and correctRate = correctCount / totalQuizzes
\* (so the first call leaves 1, and 1 or 0 for both correctCount and
\* correctRate); before the first call there is no stat.
C8_StatMatchesCalls ==
    \A a \in Accounts, c \in Categories :
        LET n == CallsCompleted(a, c)
            k == CorrectCalls(a, c)
            stat == skillStats[a][c]
        IN IF n = 0 THEN ~stat.exists
           ELSE /\ stat.exists
                /\ stat.totalQuizzes = n
                /\ stat.correctCount = k
                /\ stat.correctRate = Rat(stat.correctCount, stat.totalQuizzes)
                /\ (n = 1 => stat.correctRate = RatOfInt(k))

\* three calls, correct and incorrect ones among them
C8_Witness ==
    \E a \in Accounts, c \in Categories :
        /\ CallsCompleted(a, c) = 3
        /\ CorrectCalls(a, c) = 2
        /\ skillStats[a][c].totalQuizzes = 3
        /\ Idle


----------------------------------------------------------------------------
(* C2 *)

\* C2: with checkAndCreateMilestones run after each of a sequence of answers,
\* at most one category_master milestone is ever stored for a (user,
\* category), however often the qualifying condition holds.
C2_AtMostOneCategoryMaster ==
    \A a \in Accounts, c \in Categories : MasterCount(a, c) <= 1

\* the last check saw a qualifying stat again, after the milestone had been
\* stored on an earlier answer
C2_Witness ==
    \E d \in Detectors, i \in 1..Len(milestones) :
        /\ Quiet
        /\ ~Unchecked
        /\ margs[d].answerId = Len(answers)
        /\ Qualifies(margs[d].skillStats)
        /\ milestones[i].type = "category_master"
        /\ milestones[i].accountId = margs[d].accountId
        /\ milestones[i].category = answers[margs[d].answerId].category
        /\ milestones[i].metadata.totalQuizzes < margs[d].skillStats.totalQuizzes

----------------------------------------------------------------------------
(* C9 *)

\* the step in which checkAndCreateMilestones is called and decides
CallStep(d) == mpc[d] = "idle" /\ mpc'[d] = "create"

\* C9: a checkAndCreateMilestones call emits a category_master milestone if and
\* only if the stat it is given has correctRate >= 0.8 and totalQuizzes >= 5
\* and no category_master milestone is stored for that (user, category); and
\* a category_master milestone is inserted only when none was stored for the
\* pair before the insertion.
C9_CategoryMasterIff ==
    [][ /\ \A d \in Detectors :
               CallStep(d) =>
                   LET args == margs'[d]
                       category == answers[args.answerId].category
                   IN ("category_master" \in MilestoneTypes(mpending'[d]))
                          <=> /\ Qualifies(args.skillStats)
                              /\ MasterCount(args.accountId, category) = 0
        /\ \A a \in Accounts, c \in Categories :
               MasterCount(a, c)' > MasterCount(a, c) => MasterCount(a, c) = 0
      ]_vars

\* a call has decided to emit a category_master milestone
C9_Witness ==
    \E d \in Detectors :
        /\ mpc[d] = "create"
        /\ "category_master" \in MilestoneTypes(mpending[d])
        /\ Qualifies(margs[d].skillStats)

----------------------------------------------------------------------------
(* C10 *)

TotalCount(a, t) ==
    Cardinality({i \in 1..Len(milestones) :
                    /\ milestones[i].type = "total_milestone"
                    /\ milestones[i].accountId = a
                    /\ milestones[i].metadata.totalQuizzes = t})

\* the milestones a step appends to the collection
Inserted == {i \in 1..Len(milestones') : i > Len(milestones)}

\* C10: a checkAndCreateMilestones call emits a total_milestone exactly when
\* the user's cumulative answer count after the update is one of 10, 50, 100,
\* 500, 1000; a total_milestone for a threshold is stored only while the
\* user's count equals that threshold, so a threshold the count has passed
\* is never awarded later.
C10_TotalMilestoneExactlyAtThreshold ==
    [][ /\ \A d \in Detectors :
               CallStep(d) =>
                   /\ margs'[d].user = users[margs'[d].accountId]
                   /\ ("total_milestone" \in MilestoneTypes(mpending'[d]))
                          <=> margs'[d].user.totalQuizzes \in {10, 50, 100, 500, 1000}
        /\ \A i \in Inserted :
               milestones'[i].type = "total_milestone" =>
                   LET a == milestones'[i].accountId
                       t == milestones'[i].metadata.totalQuizzes
                   IN /\ t \in {10, 50, 100, 500, 1000}
                      /\ users[a].totalQuizzes = t
                      /\ TotalCount(a, t) = 0
      ]_vars

\* 49 -> 50 fired and 50 -> 51 did not: the count is 51, checked, and the only
\* total_milestone stored is the one for 50
C10_Witness ==
    /\ Quiet
    /\ ~Unchecked
    /\ users["alice"].totalQuizzes = 51
    /\ margs["d1"].user.totalQuizzes = 51
    /\ TotalCount("alice", 50) = 1
    /\ MilestoneTypes(milestones) = {"total_milestone"}
    /\ Len(milestones) = 1

----------------------------------------------------------------------------
(* C11 *)

\* C11: a checkAndCreateMilestones call, given the stored post-update user,
\* emits a first_correct milestone if and only if the answer was correct and
\* the user's cumulative correct count equals exactly 1.
C11_FirstCorrectIff ==
    [][ \A d \in Detectors :
            CallStep(d) =>
                LET args == margs'[d]
                    answer == answers[args.answerId]
                IN /\ args.user = users[args.accountId]
                   /\ ("first_correct" \in MilestoneTypes(mpending'[d]))
                          <=> (answer.isCorrect /\ users[args.accountId].correctCount = 1)
      ]_vars

\* a call has decided to emit first_correct for a correct answer that was not
\* the user's first answer
C11_Witness ==
    \E d \in Detectors :
        /\ mpc[d] = "create"
        /\ "first_correct" \in MilestoneTypes(mpending[d])
        /\ answers[margs[d].answerId].isCorrect
        /\ margs[d].user.correctCount = 1
        /\ margs[d].user.totalQuizzes > 1

----------------------------------------------------------------------------
(* C12 *)

\* the step in which run j writes its record
SaveStep(j) == tpc[j] = "save" /\ tpc'[j] = "idle"

\* the key run j writes to
keyOf(j) == analyticsIdOf(tloc[j].period, tloc[j].experienceLevel, tloc[j].category)

\* run j is about to write to a key whose stored record was computed from the
\* answers and profiles as they are now
Rerun(j) ==
    /\ teamAnalytics[keyOf(j)].exists
    /\ teamSeen[keyOf(j)].inputs = <<answers, profiles>>

withoutCalculatedAt(record) == [record EXCEPT !.calculatedAt = 0]

\* C12 as stated: a run for a key whose answers and profiles are unchanged
\* since the previous run for it leaves a record identical in every field.
\* The record carries calculatedAt, the time of the run (line 731), which
\* differs as soon as the clock has moved.
C12_RerunIdenticalInEveryField ==
    [][ \A j \in Jobs :
            (SaveStep(j) /\ Rerun(j)) =>
                teamAnalytics'[keyOf(j)] = teamAnalytics[keyOf(j)]
      ]_vars

\* C12 amended: such a run leaves a record identical in every field except
\* calculatedAt; nothing is accumulated and no other key is touched.
C12_RerunIdenticalButCalculatedAt ==
    [][ \A j \in Jobs :
            (SaveStep(j) /\ Rerun(j)) =>
                /\ withoutCalculatedAt(teamAnalytics'[keyOf(j)])
                       = withoutCalculatedAt(teamAnalytics[keyOf(j)])
                /\ teamAnalytics'[keyOf(j)].calculatedAt = now
                /\ \A k \in AnalyticsIds \ {keyOf(j)} :
                       teamAnalytics'[k] = teamAnalytics[k]
      ]_vars

\* a key has been recomputed from unchanged answers and profiles, at a later
\* time, for a cohort with answers
C12_Witness ==
    \E k \in AnalyticsIds :
        /\ TeamIdle
        /\ teamSeen[k].reruns >= 1
        /\ teamAnalytics[k].calculatedAt > 0
        /\ teamAnalytics[k].activeUsers >= 2
        /\ teamAnalytics[k].totalQuizzes >= 10

----------------------------------------------------------------------------
(* Vocabulary of the team aggregate: what the last run for a key worked on *)

seenAnswers(k) == teamSeen[k].inputs[1]
seenProfiles(k) == teamSeen[k].inputs[2]

\* the answers of the key's month, and of its category when it has one
SeenInPeriod(k) ==
    {i \in 1..Len(seenAnswers(k)) :
        /\ seenAnswers(k)[i].answeredAt >= startDate(teamAnalytics[k].period)
        /\ seenAnswers(k)[i].answeredAt <= endDate(teamAnalytics[k].period)
        /\ teamAnalytics[k].category # NoCategory
               => seenAnswers(k)[i].category = teamAnalytics[k].category}

\* per user of the cohort of key k, the rate over the answers of the period:
\* the users who answered in the period and, when the key has a level, have
\* a profile of that level
SeenRates(k) ==
    LET inPeriod == SeenInPeriod(k)
        level == teamAnalytics[k].experienceLevel
        mine(a) == {i \in inPeriod : seenAnswers(k)[i].accountId = a}
        cohort == {a \in AllAccounts :
                      /\ mine(a) # {}
                      /\ level # NoLevel
                             => /\ seenProfiles(k)[a].exists
                                /\ seenProfiles(k)[a].experienceLevel = level}
    IN [a \in cohort |->
           Rat(Cardinality({i \in mine(a) : seenAnswers(k)[i].isCorrect}),
               Cardinality(mine(a)))]

SeenCohort(k) == DOMAIN SeenRates(k)

\* v is the element at 0-based index min(floor(n * num / den), n - 1) of the
\* rates in ascending order
AtRank(rates, num, den, v) ==
    LET n == Cardinality(DOMAIN rates)
        floored == (n * num) \div den
        index == IF floored < n - 1 THEN floored ELSE n - 1
        below == Cardinality({a \in DOMAIN rates : ~RatLeq(v, rates[a])})
        upto == Cardinality({a \in DOMAIN rates : RatLeq(rates[a], v)})
    IN /\ \E a \in DOMAIN rates : rates[a] = v
       /\ below <= index
       /\ index < upto

Stored == {k \in AnalyticsIds : teamAnalytics[k].exists}

----------------------------------------------------------------------------
(* C13 *)

\* C13: in every stored aggregate whose cohort has n >= 1 users, each of
\* percentile25, 50, 75, 90 is the cohort rate at index min(floor(n*P), n-1)
\* of the rates sorted ascending, an element of the cohort and never an
\* interpolated value; a cohort with rates 0.2, 0.4, 0.6, 0.8 has
\* percentile50 = 0.6 and percentile90 = 0.8.
C13_PercentileIsNearestRank ==
    \A k \in Stored :
        LET rates == SeenRates(k)
        IN DOMAIN rates # {} =>
            /\ AtRank(rates, 1, 4, teamAnalytics[k].percentile25)
            /\ AtRank(rates, 1, 2, teamAnalytics[k].percentile50)
            /\ AtRank(rates, 3, 4, teamAnalytics[k].percentile75)
            /\ AtRank(rates, 9, 10, teamAnalytics[k].percentile90)
            /\ {rates[a] : a \in DOMAIN rates}
                   = {Rat(1, 5), Rat(2, 5), Rat(3, 5), Rat(4, 5)}
                   => /\ teamAnalytics[k].percentile50 = Rat(3, 5)
                      /\ teamAnalytics[k].percentile90 = Rat(4, 5)

\* the aggregate of the four users with rates 0.2, 0.4, 0.6, 0.8 is stored
C13_Witness ==
    \E k \in Stored :
        /\ TeamIdle
        /\ teamAnalytics[k].activeUsers = 4
        /\ {SeenRates(k)[a] : a \in SeenCohort(k)}
               = {Rat(1, 5), Rat(2, 5), Rat(3, 5), Rat(4, 5)}
        /\ teamAnalytics[k].percentile25 = Rat(2, 5)
        /\ teamAnalytics[k].percentile50 = Rat(3, 5)
        /\ teamAnalytics[k].percentile90 = Rat(4, 5)

----------------------------------------------------------------------------
(* C14 *)

\* C14: a stored aggregate whose cohort is empty (no answer in the period, or
\* the level filter removes every user) has avgCorrectRate = 0, the four
\* percentiles = 0 and activeUsers = 0, and its totalQuizzes is the number of
\* answers of the period (and category) before grouping and filtering.
C14_EmptyCohort ==
    \A k \in Stored :
        SeenCohort(k) = {} =>
            /\ teamAnalytics[k].avgCorrectRate = RatOfInt(0)
            /\ teamAnalytics[k].percentile25 = RatOfInt(0)
            /\ teamAnalytics[k].percentile50 = RatOfInt(0)
            /\ teamAnalytics[k].percentile75 = RatOfInt(0)
            /\ teamAnalytics[k].percentile90 = RatOfInt(0)
            /\ teamAnalytics[k].activeUsers = 0
            /\ teamAnalytics[k].totalQuizzes = Cardinality(SeenInPeriod(k))

\* both cases are stored: a month without answers, and a level filter that
\* removed every user who answered
C14_Witness ==
    /\ TeamIdle
    /\ \E k \in Stored : /\ teamAnalytics[k].totalQuizzes = 0
                         /\ SeenCohort(k) = {}
    /\ \E k \in Stored : /\ teamAnalytics[k].experienceLevel # NoLevel
                         /\ teamAnalytics[k].totalQuizzes >= 10
                         /\ teamAnalytics[k].activeUsers = 0
                         /\ SeenCohort(k) = {}

----------------------------------------------------------------------------
(* C15 *)

RECURSIVE sumOver(_, _)
sumOver(rates, set) ==
    IF set = {} THEN RatOfInt(0)
    ELSE LET a == CHOOSE x \in set : TRUE
         IN RatAdd(rates[a], sumOver(rates, set \ {a}))

\* C15: a stored aggregate for a key with a level is computed over exactly
\* the users who answered in the period and whose profile has that level:
\* activeUsers counts them, the average is the mean of their rates and each
\* percentile is one of their rates; users of another level and users with no
\* profile contribute nothing.
C15_LevelCohort ==
    \A k \in Stored :
        teamAnalytics[k].experienceLevel # NoLevel =>
            LET rates == SeenRates(k)
                n == Cardinality(DOMAIN rates)
                values == {rates[a] : a \in DOMAIN rates}
                          \cup (IF n = 0 THEN {RatOfInt(0)} ELSE {})
            IN /\ teamAnalytics[k].activeUsers = n
               /\ teamAnalytics[k].avgCorrectRate =
                      (IF n = 0 THEN RatOfInt(0)
                       ELSE RatDivInt(sumOver(rates, DOMAIN rates), n))
               /\ {teamAnalytics[k].percentile25, teamAnalytics[k].percentile50,
                   teamAnalytics[k].percentile75, teamAnalytics[k].percentile90}
                      \subseteq values

\* an aggregate for senior is stored whose run saw a senior who answered, a
\* user of another level who answered and a user without profile who answered
C15_Witness ==
    \E k \in Stored :
        /\ TeamIdle
        /\ teamAnalytics[k].experienceLevel = "senior"
        /\ teamAnalytics[k].activeUsers >= 1
        /\ \E a \in AllAccounts \ SeenCohort(k) :
               /\ \E i \in SeenInPeriod(k) : seenAnswers(k)[i].accountId = a
               /\ ~seenProfiles(k)[a].exists
        /\ \E a \in AllAccounts \ SeenCohort(k) :
               /\ \E i \in SeenInPeriod(k) : seenAnswers(k)[i].accountId = a
               /\ seenProfiles(k)[a].exists

----------------------------------------------------------------------------
(* C16 *)

\* the score of the claim for a category, as a numerator over 20 * T where T
\* is the number of attempts of the row (1 without a row or attempts):
\*   weakness  0.4 * (1 - correct/T) when T >= 3, else 0.2
\*   goal      0.3 when the category is a focus area
\*   review    0.15 never answered, 0.2 at >= 7 days, 0.1 at 3 to 6 days
\*   growth    0.1 when the average difficulty is below 2
ClaimedScoreOver(row) == IF row.exists /\ row.totalQuizzes > 0 THEN row.totalQuizzes ELSE 1

ClaimedScoreTimes20T(profile, row, category) ==
    LET T == ClaimedScoreOver(row)
        days == (now - row.lastAnsweredAt[1]) \div DayLen
    IN (IF row.exists /\ row.totalQuizzes >= 3
        THEN 8 * (row.totalQuizzes - row.correctCount) ELSE 4 * T)
       + (IF \E i \in 1..Len(profile.focusAreas) : profile.focusAreas[i] = category
          THEN 6 * T ELSE 0)
       + (IF ~row.exists \/ row.lastAnsweredAt = None THEN 3 * T
          ELSE IF days >= 7 THEN 4 * T
          ELSE IF days >= 3 THEN 2 * T ELSE 0)
       + (IF row.exists /\ row.averageDifficulty.num < 2 * row.averageDifficulty.den
          THEN 2 * T ELSE 0)

\* the row of the claim's example: 10 attempts, 2 correct, answered 10 days
\* ago, average difficulty 1.5
IsExampleRow(row) ==
    /\ row.exists
    /\ row.totalQuizzes = 10
    /\ row.correctCount = 2
    /\ row.lastAnsweredAt # None
    /\ (now - row.lastAnsweredAt[1]) \div DayLen = 10
    /\ row.averageDifficulty = Rat(3, 2)

\* C16: every score selectOptimalCategory computes is the sum of the four
\* signals of the claim; the example category (in the focus areas, against
\* categories with no data) scores 0.92 and is among the first three.
C16_ScoreIsSumOfSignals ==
    (rout.op = "category" /\ rout.scores # <<>>) =>
        /\ Len(rout.scores) = 5
        /\ \A i \in 1..Len(rout.scores) :
               LET c == rout.scores[i].category
                   row == findStats(rin.skillStats, c)
               IN rout.scores[i].score.num * 20 * ClaimedScoreOver(row)
                      = rout.scores[i].score.den
                            * ClaimedScoreTimes20T(rin.profile, row, c)
        /\ \A i \in 1..Len(rout.scores) :
               LET c == rout.scores[i].category
               IN (/\ Len(rin.skillStats) = 1
                   /\ IsExampleRow(findStats(rin.skillStats, c))
                   /\ \E k \in 1..Len(rin.profile.focusAreas) :
                          rin.profile.focusAreas[k] = c)
                  => /\ rout.scores[i].score = Rat(23, 25)
                     /\ i <= 3

\* the example has been scored: one row, in the focus areas, score 0.92 in
\* first place, the categories without data behind it
C16_Witness ==
    /\ rout.op = "category"
    /\ Len(rin.skillStats) = 1
    /\ IsExampleRow(rin.skillStats[1])
    /\ rout.scores # <<>>
    /\ rout.scores[1].category = rin.skillStats[1].category
    /\ rout.scores[1].score = Rat(23, 25)
    /\ rout.scores[2].score = Rat(7, 20)

----------------------------------------------------------------------------
(* C17 *)

\* category a scores higher than category b, by the score of the claim; equal
\* scores keep the order of the category list
RanksAhead(a, b) ==
    LET ra == findStats(rin.skillStats, allCategories[a])
        rb == findStats(rin.skillStats, allCategories[b])
        na == ClaimedScoreTimes20T(rin.profile, ra, allCategories[a]) * ClaimedScoreOver(rb)
        nb == ClaimedScoreTimes20T(rin.profile, rb, allCategories[b]) * ClaimedScoreOver(ra)
    IN na > nb \/ (na = nb /\ a < b)

\* the three highest-scoring categories
ThreeHighest ==
    {allCategories[b] : b \in {b \in 1..Len(allCategories) :
        Cardinality({a \in 1..Len(allCategories) : RanksAhead(a, b)}) < 3}}

Scored == rin.profile.exists /\ rin.skillStats # <<>>

\* selectOptimalCategory is about to return and can return c
CanReturn(c) ==
    ENABLED ((SelectRandomCategory \/ SelectTopCategory) /\ rout'.selected = c)

\* selectOptimalCategory is at its return: at once when it does not score,
\* after the scores when it does
AtReturn == IF Scored THEN rout.op = "scoring" ELSE ServiceIdle

\* C17: the categories selectOptimalCategory can return are exactly the three
\* highest-scoring ones when there is a profile and a non-empty stats list,
\* each of them possible, and exactly all five categories otherwise.
C17_SelectableSet ==
    LET allowed == IF Scored THEN ThreeHighest ELSE Categories
    IN /\ Cardinality(allowed) = IF Scored THEN 3 ELSE 5
       /\ AtReturn => \A c \in Categories : CanReturn(c) <=> c \in allowed
       /\ rout.op = "category" => rout.selected \in allowed

\* the third of three different scores has been returned, ahead of a fourth
C17_Witness ==
    /\ Scored
    /\ rout.op = "category"
    /\ rout.selected = rout.scores[3].category
    /\ RatLess(rout.scores[3].score, rout.scores[2].score)
    /\ RatLess(rout.scores[2].score, rout.scores[1].score)
    /\ RatLess(rout.scores[4].score, rout.scores[3].score)

----------------------------------------------------------------------------
(* C18 *)

DifficultySteps == <<"easy", "medium", "hard">>

\* the baseline of the claim, as a step of DifficultySteps
BaselineStep(experienceLevel) ==
    IF experienceLevel = "junior" THEN 1
    ELSE IF experienceLevel = "senior" THEN 3 ELSE 2

\* +1 at >= 5 attempts and rate >= 0.8, -1 at >= 5 attempts and rate <= 0.4
AdjustmentOf(row) ==
    IF row.exists /\ row.totalQuizzes >= 5
       /\ 5 * row.correctCount >= 4 * row.totalQuizzes THEN 1
    ELSE IF row.exists /\ row.totalQuizzes >= 5
            /\ 5 * row.correctCount <= 2 * row.totalQuizzes THEN -1
    ELSE 0

Clamped(step) == IF step < 1 THEN 1 ELSE IF step > 3 THEN 3 ELSE step

\* C18: selectOptimalDifficulty returns easy without a profile; otherwise the
\* baseline of the experience level, one step up (at most hard) at >= 5
\* attempts and rate >= 0.8, one step down (at least easy) at >= 5 attempts and
\* rate <= 0.4, and the baseline in every other case.
C18_DifficultyTable ==
    rout.op = "difficulty" =>
        LET row == findStats(rin.skillStats, rout.category)
        IN rout.difficulty =
               IF ~rin.profile.exists THEN "easy"
               ELSE DifficultySteps[Clamped(BaselineStep(rin.profile.experienceLevel)
                                            + AdjustmentOf(row))]

\* a mid-level user with exactly 5 attempts at a rate of exactly 0.8 is raised
\* from medium to hard
C18_Witness ==
    /\ rout.op = "difficulty"
    /\ rin.profile.exists
    /\ rin.profile.experienceLevel = "mid"
    /\ findStats(rin.skillStats, rout.category).exists
    /\ findStats(rin.skillStats, rout.category).totalQuizzes = 5
    /\ findStats(rin.skillStats, rout.category).correctCount = 4
    /\ rout.difficulty = "hard"

----------------------------------------------------------------------------
(* C19 *)

IsZeroRow(row) == row.exists /\ row.totalQuizzes = 0

\* the stats handed in, the rows with zero attempts taken out
withoutZeroRows(stats) == SelectSeq(stats, LAMBDA x : ~IsZeroRow(x))

\* the score of a category with a zero-attempt row is its score without a row
SameScore ==
    (rout.op = "category" /\ rout.scores # <<>>) =>
        \A i \in 1..Len(rout.scores) :
            IsZeroRow(findStats(rin.skillStats, rout.scores[i].category)) =>
                rout.scores[i].score =
                    calculateCategoryPriority(rin.profile,
                                              withoutZeroRows(rin.skillStats),
                                              rout.scores[i].category)

\* the categories that can be returned are those of the stats without the
\* zero-attempt rows
SameSelectableSet ==
    AtReturn =>
        \A c \in Categories :
            CanReturn(c) <=>
                c \in selectableCategories(rin.profile, withoutZeroRows(rin.skillStats))

\* the recommendation bundle is that of the stats without the zero-attempt rows
SameRecommendations ==
    rout.op = "recommendations" =>
        rout.recommendations =
            generateLearningRecommendations(rin.profile, withoutZeroRows(rin.skillStats))

\* one answer applied to a zero-attempt row gives the counts, the rate and the
\* average difficulty of the row created for a first answer
SameStatAfterOneAnswer ==
    \A i \in 1..Len(rin.skillStats) :
        IsZeroRow(rin.skillStats[i]) =>
            \A difficulty \in Difficulties, isCorrect \in BOOLEAN :
                LET updated == writtenSkillStats(rin.skillStats[i], difficulty, isCorrect)
                    created == writtenSkillStats(NoStat, difficulty, isCorrect)
                IN /\ updated.totalQuizzes = created.totalQuizzes
                   /\ updated.correctCount = created.correctCount
                   /\ updated.correctRate = created.correctRate
                   /\ updated.averageDifficulty = created.averageDifficulty

----------------------------------------------------------------------------
(* C20 *)

\* the rows of the claim's weak areas: >= 3 attempts and a rate below 0.6
WeakRows ==
    {i \in 1..Len(rin.skillStats) :
        /\ rin.skillStats[i].totalQuizzes >= 3
        /\ 5 * rin.skillStats[i].correctCount < 3 * rin.skillStats[i].totalQuizzes}

\* high below 0.3, medium from 0.3 and below 0.5, low otherwise
PriorityOf(row) ==
    IF 10 * row.correctCount < 3 * row.totalQuizzes THEN "high"
    ELSE IF 2 * row.correctCount < row.totalQuizzes THEN "medium"
    ELSE "low"

\* weakAreas holds exactly the weak rows, by ascending rate, each with its tag
WeakAreasAsClaimed ==
    rout.op = "recommendations" =>
        LET weakAreas == rout.recommendations.weakAreas
        IN /\ Len(weakAreas) = Cardinality(WeakRows)
           /\ \A i \in WeakRows :
                  \E k \in 1..Len(weakAreas) :
                      /\ weakAreas[k].category = rin.skillStats[i].category
                      /\ weakAreas[k].correctRate.num * rin.skillStats[i].totalQuizzes
                             = weakAreas[k].correctRate.den * rin.skillStats[i].correctCount
                      /\ weakAreas[k].priority = PriorityOf(rin.skillStats[i])
           /\ \A k, l \in 1..Len(weakAreas) :
                  k < l => weakAreas[k].correctRate.num * weakAreas[l].correctRate.den
                               <= weakAreas[l].correctRate.num * weakAreas[k].correctRate.den

\* suggestedFocusAreas is the profile's focus areas when there are any, else
\* the weakest area alone (nothing when there is no weak area)
SuggestedFocusAsClaimed ==
    rout.op = "recommendations" =>
        LET weakAreas == rout.recommendations.weakAreas
        IN rout.recommendations.suggestedFocusAreas =
               IF rin.profile.exists /\ rin.profile.focusAreas # <<>>
               THEN rin.profile.focusAreas
               ELSE IF weakAreas # <<>> THEN <<weakAreas[1].category>> ELSE <<>>

\* C20: weakAreas is exactly the categories with >= 3 attempts and a rate below
\* 0.6, ascending by rate, tagged high / medium / low at 0.3 and 0.5;
\* suggestedFocusAreas is the profile's focus areas when non-empty, else the
\* single weakest area.
C20_WeakAreasAndSuggestedFocus ==
    /\ WeakAreasAsClaimed
    /\ SuggestedFocusAsClaimed

----------------------------------------------------------------------------
(* C21 *)

AtMostFiveFocusAreas ==
    \A a \in AllAccounts :
        profiles[a].exists => Len(profiles[a].focusAreas) <= 5

NoDuplicateFocusArea ==
    \A a \in AllAccounts :
        profiles[a].exists =>
            \A i, j \in 1..Len(profiles[a].focusAreas) :
                i # j => profiles[a].focusAreas[i] # profiles[a].focusAreas[j]

\* C21: after any sequence of /profile commands and profile API updates the
\* stored focusAreas of every profile has at most 5 entries and no category
\* twice.
C21_FocusAreasBoundedAndDistinct ==
    /\ AtMostFiveFocusAreas
    /\ NoDuplicateFocusArea

----------------------------------------------------------------------------
(* C22 *)

\* the fields of a's profile that a step keeps, given which ones the update
\* specifies
FieldsKept(a, goal, experience, years, focus, assessment) ==
    /\ profiles'[a].exists
    /\ profiles'[a].accountId = profiles[a].accountId
    /\ profiles'[a].createdAt = profiles[a].createdAt
    /\ ~goal => profiles'[a].careerGoal = profiles[a].careerGoal
    /\ ~experience => profiles'[a].experienceLevel = profiles[a].experienceLevel
    /\ ~years => profiles'[a].yearsOfExperience = profiles[a].yearsOfExperience
    /\ ~focus => profiles'[a].focusAreas = profiles[a].focusAreas
    /\ ~assessment => profiles'[a].selfAssessment = profiles[a].selfAssessment

\* the write of a /profile command keeps what the command leaves out
CommandKeepsUnspecified(c) ==
    (UpsertFromCommand(c) /\ profiles[creq[c].accountId].exists) =>
        FieldsKept(creq[c].accountId,
                   creq[c].command.goal # None, creq[c].command.experience # None,
                   creq[c].command.years # None, creq[c].command.focus # None, FALSE)

\* the write of upsertUserProfile keeps what its input leaves out
InputKeepsUnspecified(input) ==
    (PutProfile(input) /\ profiles[input.accountId].exists) =>
        FieldsKept(input.accountId,
                   input.careerGoal # None, input.experienceLevel # None,
                   input.yearsOfExperience # None, input.focusAreas # None,
                   input.selfAssessment # None)

\* C22: an update of an existing profile, by a /profile command or by
\* upsertUserProfile, keeps the stored value of every field it leaves
\* unspecified.
C22_UnspecifiedFieldsKept ==
    [][/\ \A c \in Comments : CommandKeepsUnspecified(c)
       /\ \A input \in ApiInputs : InputKeepsUnspecified(input)]_vars

----------------------------------------------------------------------------
(* C23 *)

\* the characters are a decimal number without sign
AllDigits(chars) ==
    /\ chars # <<>>
    /\ \A i \in 1..Len(chars) : chars[i] \in {"0", "1", "2", "3", "4", "5", "6", "7", "8", "9"}

\* a key=value pair of a /profile comment whose value is invalid: a bad
\* experience level, negative or non-numeric years, more than 5 or unknown
\* focus categories, a goal over 500 characters
InvalidParam(param) ==
    LET key == toLowerCase(param.key)
        pieces == SelectSeq(param.value, LAMBDA c : c # "")
    IN \/ key \in {"experience", "exp"}
          /\ toLowerCase(param.value) \notin {"junior", "mid", "senior"}
       \/ key \in {"years", "year"} /\ ~AllDigits(param.value)
       \/ key = "focus"
          /\ \/ Len(pieces) > 5
             \/ \E i \in 1..Len(pieces) : pieces[i] \notin Categories
       \/ key = "goal" /\ param.value > 500

\* a /profile comment with an invalid value, or an /answer comment whose
\* index is not 1..4
Malformed(body) ==
    /\ body # <<>>
    /\ \/ /\ toLowerCase(body.command) = "/profile"
          /\ \E i \in 1..Len(body.params) : InvalidParam(body.params[i])
       \/ /\ toLowerCase(body.command) = "/answer"
          /\ body.text \notin {<<"1">>, <<"2">>, <<"3">>, <<"4">>}

\* the step belongs to the request in slot c: the request record moves, or
\* its handleAnswerCommand invocation does
StepOfRequest(c) ==
    \/ creq'[c] # creq[c]
    \/ /\ creq[c].pc = "handleAnswer"
       /\ <<pc[procOf[c]], loc[procOf[c]]>>' # <<pc[procOf[c]], loc[procOf[c]]>>

\* the body of the request in slot c, before or after the step that receives it
BodyOfRequest(c) == IF creq[c].body # <<>> THEN creq[c].body ELSE creq'[c].body

\* C23: no step of a request with a malformed command changes the stored
\* profiles, answers, user totals, category statistics or milestones.
C23_MalformedCommandMutatesNothing ==
    [][\A c \in Comments :
           (StepOfRequest(c) /\ Malformed(BodyOfRequest(c))) =>
               UNCHANGED <<profiles, answers, users, skillStats, milestones>>]_vars

----------------------------------------------------------------------------
(* C24 *)

\* C24: a comment request during which a storage call failed is never
\* answered with the success response.
C24_StorageFailurePropagated ==
    \A c \in Comments : creq[c].failed => creq[c].response # "success"

----------------------------------------------------------------------------
(* C25 *)

\* the positions of the category_master milestones of (a, c) in a list
MastersIn(list, a, c) ==
    {i \in 1..Len(list) : /\ list[i].accountId = a
                          /\ list[i].type = "category_master"
                          /\ list[i].category = c}

\* the invocation d has read an empty existence query for (a, c) and has not
\* inserted yet
ReadEmpty(d, a, c) == mpc[d] = "create" /\ MastersIn(mpending[d], a, c) # {}

\* d makes its existence query in this step
QueriesAt(d) == mpc[d] = "idle" /\ mpc'[d] = "create"

\* C25: an invocation queues a category_master milestone for (user, category)
\* exactly when the rule holds and its query finds none stored, and inserts
\* what it has queued without a second look; so two invocations that both
\* query before either inserts leave two category_master milestones.
C25_MasteryCheckIsReadThenWrite ==
    [][\A d \in Detectors :
           /\ QueriesAt(d) =>
                  LET a == margs'[d].accountId
                      answer == answers[margs'[d].answerId]
                      stat == margs'[d].skillStats
                      qualifies == /\ stat.exists
                                   /\ stat.totalQuizzes >= 5
                                   /\ 5 * stat.correctCount >= 4 * stat.totalQuizzes
                  IN Cardinality(MastersIn(mpending'[d], a, answer.category)) =
                         IF qualifies /\ MastersIn(milestones, a, answer.category) = {}
                         THEN 1 ELSE 0
           /\ \A a \in Accounts, c \in Categories :
                  (ReadEmpty(d, a, c) /\ mpending'[d] # mpending[d]) =>
                      /\ milestones' = Append(milestones, Head(mpending[d]))
                      /\ mpending'[d] = Tail(mpending[d])]_vars

\* two category_master milestones for the same (user, category) are stored
C25_Witness ==
    \E a \in Accounts, c \in Categories :
        Cardinality(MastersIn(milestones, a, c)) >= 2

----------------------------------------------------------------------------
(* C26 *)

\* the run j writes in this step
WritesAt(j) == tpc[j] = "save" /\ tpc'[j] = "idle"

\* C26: with two runs in flight, the write of a run puts the record that run
\* computed under the run's key, replacing what the other run stored there,
\* and changes the record of no other key; so after two runs for one key the
\* stored record is that of the later write.
C26_LaterWriteWins ==
    [][\A j \in Jobs :
           WritesAt(j) =>
               teamAnalytics' =
                   [teamAnalytics EXCEPT ![computedAnalytics(j).analyticsId] =
                                             computedAnalytics(j)]]_vars

\* two runs for one key have overlapped and both have written: both writes
\* came after the last change of the store, and the stored record is that of
\* a run that had fetched the answers before the change
C26_Witness ==
    /\ TeamIdle
    /\ \E id \in AnalyticsIds :
           /\ teamAnalytics[id].exists
           /\ teamSeen[id].reruns >= 1
           /\ teamSeen[id].inputs = <<answers, profiles>>
           /\ teamAnalytics[id].totalQuizzes <
                  Len(fetchAnswers(teamAnalytics[id].period, teamAnalytics[id].category))

----------------------------------------------------------------------------
(* C27 *)

\* the Answer documents of user a for quiz q
AnswersTo(a, q) ==
    {i \in 1..Len(answers) : answers[i].accountId = a /\ answers[i].quizId = q}

\* the invocation p is for a quiz its user has already answered
RepeatedAnswer(p) ==
    /\ pc[p] \in {"getAnswers", "alreadyAnswered"}
    /\ AnswersTo(loc[p].accountId, loc[p].quizId) # {}

\* C27: an invocation for a quiz the user has already answered changes no
\* Answer, user total, category stat or milestone, and returns
\* alreadyAnswered = true with the id of the stored answer and no new
\* milestone.
C27_RepeatedAnswerIsNoOp ==
    [][\A p \in Procs :
           (RepeatedAnswer(p) /\ pc'[p] # pc[p]) =>
               /\ UNCHANGED <<answers, users, skillStats, milestones>>
               /\ pc'[p] \in {"alreadyAnswered", "idle"}
               /\ pc'[p] = "idle" =>
                      /\ result' = [status |-> "ok", proc |-> p,
                                    alreadyAnswered |-> TRUE,
                                    answerId |-> result'.answerId,
                                    newMilestones |-> <<>>]
                      /\ result'.answerId \in AnswersTo(loc[p].accountId, loc[p].quizId)]_vars

\* a repeated answer to a quiz answered before the latest one has returned
C27_Witness ==
    /\ Idle
    /\ result.status = "ok"
    /\ result.alreadyAnswered
    /\ result.answerId < Len(answers)
    /\ result.newMilestones = <<>>

----------------------------------------------------------------------------
(* C28 *)

\* the quizzes user a has an Answer document for
QuizzesAnswered(a) == {answers[i].quizId : i \in getAnswersByUser(a)}

\* every quiz is counted at most once in the totals of its user and in the
\* stat of its category
CountedAtMostOnce ==
    \A a \in Accounts :
        /\ users[a].exists => users[a].totalQuizzes <= Cardinality(QuizzesAnswered(a))
        /\ \A c \in Categories :
               StatTotal(a, c) <=
                   Cardinality({q \in QuizzesAnswered(a) : quizzes[q].category = c})

\* C28: in every reachable state, however the handleAnswerCommand invocations
\* interleave, there is at most one Answer document per (accountId, quizId)
\* and each quiz is counted at most once.
C28_OneAnswerPerQuiz ==
    /\ NoQuizAnsweredTwice
    /\ CountedAtMostOnce

----------------------------------------------------------------------------
(* C29 *)

RECURSIVE StatSum(_, _, _)
\* the sum of a counter over the stored category stats of user a
StatSum(a, categories, counter) ==
    IF categories = {} THEN 0
    ELSE LET c == CHOOSE x \in categories : TRUE
         IN (IF skillStats[a][c].exists THEN skillStats[a][c][counter] ELSE 0)
                + StatSum(a, categories \ {c}, counter)

\* C29: once the sequential calls have completed, the totalQuizzes of a user
\* whose record exists is the sum of the totalQuizzes of the user's category
\* stats, and the correctCount is the sum of their correctCounts.
C29_UserTotalsAreCategorySums ==
    Idle =>
        \A a \in Accounts :
            users[a].exists =>
                /\ users[a].totalQuizzes = StatSum(a, Categories, "totalQuizzes")
                /\ users[a].correctCount = StatSum(a, Categories, "correctCount")

\* three answers over two categories, right and wrong ones among them
C29_Witness ==
    /\ Idle
    /\ users["alice"].exists
    /\ users["alice"].totalQuizzes = 3
    /\ users["alice"].correctCount \in {1, 2}
    /\ StatTotal("alice", "security") > 0
    /\ StatTotal("alice", "logic") > 0

----------------------------------------------------------------------------
(* C30 *)

\* the first_correct milestones of user a
FirstCorrects(a) ==
    {i \in 1..Len(milestones) : /\ milestones[i].accountId = a
                                /\ milestones[i].type = "first_correct"}

\* the correct answers of user a, by position
CorrectAnswers(a) == {i \in getAnswersByUser(a) : answers[i].isCorrect}

\* the first of them
FirstCorrectAnswer(a) == CHOOSE i \in CorrectAnswers(a) : \A j \in CorrectAnswers(a) : i <= j

\* C30: with one checkAndCreateMilestones call per answer, a user never has
\* more than one first_correct milestone; the one there is carries the quiz of
\* the user's first correct answer, and it is there once that answer has been
\* checked.
C30_OneFirstCorrect ==
    \A a \in Accounts :
        /\ Cardinality(FirstCorrects(a)) <= 1
        /\ \A i \in FirstCorrects(a) :
               /\ CorrectAnswers(a) # {}
               /\ FirstCorrectAnswer(a) > histLen
               /\ milestones[i].metadata.quizId = answers[FirstCorrectAnswer(a)].quizId
        /\ (/\ Quiet
            /\ ~Unchecked
            /\ CorrectAnswers(a) # {}
            /\ FirstCorrectAnswer(a) > histLen) => FirstCorrects(a) # {}

\* the first correct answer has its milestone and a later correct answer has
\* been checked without a second one
C30_Witness ==
    /\ Quiet
    /\ ~Unchecked
    /\ Cardinality(FirstCorrects("alice")) = 1
    /\ users["alice"].correctCount >= 2
    /\ FirstCorrectAnswer("alice") > histLen

====
